---- MODULE Spec2Model ----
(***************************************************************************)
(* Verification model of the consensus core: the Blockchain engine         *)
(* (src/src/consensus/base/blockchain/blockchain.rs) over its chain store, *)
(* accounts tree and transaction cache.                                    *)
(*                                                                         *)
(* Hashes are modelled as collision-free digests: the digest of a value is *)
(* the tagged value itself.  Targets are kept at a one-bit compact         *)
(* precision (powers of two), so that difficulties are integers.           *)
(***************************************************************************)
EXTENDS Integers, Sequences, FiniteSets, TLC

VARIABLES
    store,      \* the committed database: chain_db, block_db, head, accounts
    state,      \* BlockchainState behind the `state` RwLock, or None when no engine is alive
    push_lock,  \* owner of Blockchain::push_lock, or NoThread
    rw,         \* the `state` RwLock: [writer |-> thread or NoThread, readers |-> set of threads]
    pc,         \* per thread: the position inside push
    loc,        \* per thread: the locals of the running push
    phase,      \* lifecycle of the engine object: "init", "dropped", "loaded",
                \* "load_failed", "crashed", "recovered", "recovery_failed"
    old,        \* head_hash/height of the engine dropped last (None while running)
    pool,       \* per node: ConnectionPoolState behind the pool's `state` RwLock
    net,        \* per node and socket: how far the socket has come, the close type
                \* requested for it, the connection id its close listener captured
    evlog,      \* per node and socket: the events the pool's listener was handed
    hist,       \* per node: event types notified under the state write lock, whether
                \* inbound exchange was ever allowed / an outbound connection ever
                \* requested
    fault,      \* per node: the message of the assertion that failed, "" for none
    notifier,   \* a utils::observer::Notifier: [listeners, next_handle]
    nlog,       \* what its caller knows: the registrations made and not taken back,
                \* the handles returned so far, the invocations of the last notify,
                \* the handle returned last
    sparse,     \* a SparseVec: [inner, free_indices]
    slog,       \* what its caller knows: the values it holds by index, and the last
                \* call with its result
    ntime,      \* Network: the time offsets of the Established peers, the offset
                \* handed to network_time.set_offset, the NetworkEvent notified last
    network     \* Network: auto_connect, backed_off, backoff, its timers, what the
                \* last check_peer_count and housekeeping did, and who holds or
                \* waits for the pool's change_lock

bvars == <<store, state, push_lock, rw, pc, loc, phase, old>>
pvars == <<pool, net, evlog, hist, fault>>
uvars == <<notifier, nlog, sparse, slog, ntime, network>>
vars == <<store, state, push_lock, rw, pc, loc, phase, old, pool, net, evlog, hist, fault,
          notifier, nlog, sparse, slog, ntime, network>>

\* Option::None (an empty tuple, comparable with records and digests).
None == <<>>
NoThread == "nobody"
Threads == {"t1", "t2"}

\* ------------------------------------------------------------------ bounds
\* Largest number of blocks besides genesis that the store may hold.
MaxBlocks == 4
\* Sockets opened at one node.
MaxSockets == 2
\* Largest number of blocks besides genesis in the store of the engine that
\* is only given well-formed blocks.
MaxChain == 6

\* ------------------------------------------------------- policy constants
DIFFICULTY_BLOCK_WINDOW == 2
BLOCK_TIME == 1
DIFFICULTY_MAX_ADJUSTMENT_FACTOR == 2
BLOCK_TARGET_MAX == 4
TRANSACTION_VALIDITY_WINDOW == 2
BLOCK_REWARD == 1

\* ------------------------------------------------------------- primitives
Max(a, b) == IF a >= b THEN a ELSE b
Min(a, b) == IF a <= b THEN a ELSE b
SaturatingSub(a, b) == IF a >= b THEN a - b ELSE 0

RECURSIVE FloorPow2(_)
\* TargetCompact::from(Target) followed by Target::from(TargetCompact): the
\* target cut to compact precision (here: the largest power of two <= x).
FloorPow2(x) == IF x <= 1 THEN 1 ELSE 2 * FloorPow2(x \div 2)

TargetCompact(target) == FloorPow2(target)

\* Difficulty of a compact target: BLOCK_TARGET_MAX / target.
Difficulty(n_bits) == BLOCK_TARGET_MAX \div n_bits

\* Blake2b over the serialized header.
Hash(header) == <<"blake2b", header>>
ZeroHash == <<"blake2b", [height |-> 0]>>

\* body_hash: Blake2b over the serialized body.
BodyHash(body) == <<"body", body.transactions>>

\* ---------------------------------------------------------------- accounts
Addr == {"m", "a"}
Miner == "m"
Tx1 == [sender |-> "m", recipient |-> "a", value |-> 1]

GenesisAccounts == [x \in Addr |-> IF x = "m" THEN 1 ELSE 0]

\* Accounts::hash: root of the accounts tree (the balances in address order).
AccountsHash(acc) == <<acc["a"], acc["m"]>>

RECURSIVE ApplyTxs(_, _)
\* Debit the sender, then credit the recipient, transaction by transaction.
\* Result: [ok, acc, err].
ApplyTxs(acc, txs) ==
    IF txs = <<>> THEN [ok |-> TRUE, acc |-> acc, err |-> None]
    ELSE LET tx == Head(txs) IN
         IF acc[tx.sender] < tx.value
         THEN [ok |-> FALSE, acc |-> acc, err |-> "InsufficientFunds"]
         ELSE LET a1 == [acc EXCEPT ![tx.sender] = @ - tx.value]
                  a2 == [a1 EXCEPT ![tx.recipient] = @ + tx.value]
              IN ApplyTxs(a2, Tail(txs))

\* Accounts::commit_block: transactions in body order, then the miner reward,
\* then the root is compared with header.accounts_hash.  On failure `acc` is
\* what the call has written into the transaction so far.
CommitBlock(acc, block) ==
    LET r == ApplyTxs(acc, block.body.transactions) IN
    IF ~r.ok THEN r
    ELSE LET a == [r.acc EXCEPT ![Miner] = @ + BLOCK_REWARD] IN
         IF AccountsHash(a) # block.header.accounts_hash
         THEN [ok |-> FALSE, acc |-> a, err |-> "AccountsHashMismatch"]
         ELSE [ok |-> TRUE, acc |-> a, err |-> None]

RECURSIVE UnapplyTxs(_, _)
UnapplyTxs(acc, txs) ==
    IF txs = <<>> THEN [ok |-> TRUE, acc |-> acc, err |-> None]
    ELSE LET tx == txs[Len(txs)] IN
         IF acc[tx.recipient] < tx.value
         THEN [ok |-> FALSE, acc |-> acc, err |-> "InsufficientFunds"]
         ELSE LET a1 == [acc EXCEPT ![tx.recipient] = @ - tx.value]
                  a2 == [a1 EXCEPT ![tx.sender] = @ + tx.value]
              IN UnapplyTxs(a2, SubSeq(txs, 1, Len(txs) - 1))

\* Accounts::revert_block: the inverse of commit_block, in reverse order.
RevertBlock(acc, block) ==
    IF acc[Miner] < BLOCK_REWARD
    THEN [ok |-> FALSE, acc |-> acc, err |-> "InsufficientFunds"]
    ELSE UnapplyTxs([acc EXCEPT ![Miner] = @ - BLOCK_REWARD], block.body.transactions)

\* ------------------------------------------------------------------ blocks
MkBlock(prev_hash, height, timestamp, n_bits, accounts_hash, txs, nonce) ==
    [header |-> [prev_hash |-> prev_hash, height |-> height, timestamp |-> timestamp,
                 n_bits |-> n_bits, accounts_hash |-> accounts_hash,
                 body_hash |-> BodyHash([transactions |-> txs]), nonce |-> nonce],
     body |-> [transactions |-> txs]]

GenesisBlock ==
    MkBlock(ZeroHash, 1, 0, BLOCK_TARGET_MAX, AccountsHash(GenesisAccounts), <<>>, 0)
GenesisHash == Hash(GenesisBlock.header)

\* valid_pow(header): a pure predicate of the header; nonce 0 stands for a
\* nonce that meets the target.
ValidPow(header) == header.nonce = 0

\* Block::verify: proof of work and body hash.
Verify(block) ==
    /\ ValidPow(block.header)
    /\ block.header.body_hash = BodyHash(block.body)

\* Block::is_immediate_successor_of
IsImmediateSuccessorOf(block, prev) ==
    /\ block.header.height = prev.header.height + 1
    /\ block.header.timestamp >= prev.header.timestamp
    /\ block.header.prev_hash = Hash(prev.header)

\* --------------------------------------------------------------- ChainInfo
ChainInfoInitial(block) ==
    [head |-> block, total_difficulty |-> Difficulty(block.header.n_bits),
     on_main_chain |-> TRUE, main_chain_successor |-> None]

ChainInfoNext(prev_info, block) ==
    [head |-> block,
     total_difficulty |-> prev_info.total_difficulty + Difficulty(block.header.n_bits),
     on_main_chain |-> FALSE, main_chain_successor |-> None]

\* -------------------------------------------------------------- ChainStore
\* A database view: chain_db (hash -> ChainInfo without body), block_db
\* (hash -> body), head, and the accounts tree that shares the environment.
EmptyDb == [chain_db |-> <<>>, block_db |-> <<>>, head |-> None, accounts |-> GenesisAccounts]

StripBody(info) == [info EXCEPT !.head.body = None]

\* f with key k set to v.
Put(f, k, v) == [x \in DOMAIN f \cup {k} |-> IF x = k THEN v ELSE f[x]]

GetChainInfo(db, hash, include_body) ==
    IF hash \notin DOMAIN db.chain_db THEN None
    ELSE IF include_body /\ hash \in DOMAIN db.block_db
         THEN [db.chain_db[hash] EXCEPT !.head.body = db.block_db[hash]]
         ELSE db.chain_db[hash]

PutChainInfo(db, hash, info, include_body) ==
    [db EXCEPT !.chain_db = Put(@, hash, StripBody(info)),
               !.block_db = IF include_body /\ info.head.body # None
                            THEN Put(@, hash, info.head.body) ELSE @]

SetHead(db, hash) == [db EXCEPT !.head = hash]

\* get_chain_info_at: the main-chain block of that height.
GetChainInfoAt(db, height) ==
    LET S == {h \in DOMAIN db.chain_db :
                 db.chain_db[h].on_main_chain /\ db.chain_db[h].head.header.height = height}
    IN IF S = {} THEN None ELSE db.chain_db[CHOOSE h \in S : TRUE]

RECURSIVE GetBlocksBackward(_, _, _, _)
\* Up to `count` predecessors of `start`, nearest first, `start` excluded.
GetBlocksBackward(db, start, count, include_body) ==
    IF count = 0 \/ start \notin DOMAIN db.chain_db THEN <<>>
    ELSE LET prev == db.chain_db[start].head.header.prev_hash
             info == GetChainInfo(db, prev, include_body)
         IN IF info = None THEN <<>>
            ELSE <<info.head>> \o GetBlocksBackward(db, prev, count - 1, include_body)

\* -------------------------------------------------------- TransactionCache
\* The window as a sequence of blocks, oldest first.
CacheNew == <<>>
CacheMissingBlocks(cache) == SaturatingSub(TRANSACTION_VALIDITY_WINDOW, Len(cache))
CacheIsEmpty(cache) == cache = <<>>
CacheHeadHash(cache) == Hash(cache[Len(cache)].header)
CacheTailHash(cache) == Hash(cache[1].header)
CacheTxs(cache) == UNION {{b.body.transactions[i] : i \in 1..Len(b.body.transactions)} :
                             b \in {cache[j] : j \in 1..Len(cache)}}
CacheContainsAny(cache, block) ==
    \E i \in 1..Len(block.body.transactions) : block.body.transactions[i] \in CacheTxs(cache)
CachePushBlock(cache, block) ==
    LET c == Append(cache, block) IN
    IF Len(c) > TRANSACTION_VALIDITY_WINDOW THEN Tail(c) ELSE c
CacheRevertBlock(cache, block) ==
    IF cache = <<>> THEN cache ELSE SubSeq(cache, 1, Len(cache) - 1)
CachePrependBlock(cache, block) ==
    IF Len(cache) < TRANSACTION_VALIDITY_WINDOW THEN <<block>> \o cache ELSE cache

\* ------------------------------------------------- Blockchain: retargeting
RECURSIVE ForkWalk(_, _, _)
\* The do-while walk along a fork: fetch the predecessor, go on while
\* i < DIFFICULTY_BLOCK_WINDOW and the block fetched is not on the main chain.
\* None stands for the panic of expect().
ForkWalk(db, prev_hash, i) ==
    LET prev_info == GetChainInfo(db, prev_hash, FALSE) IN
    IF prev_info = None THEN None
    ELSE IF i < DIFFICULTY_BLOCK_WINDOW /\ ~prev_info.on_main_chain
         THEN ForkWalk(db, prev_info.head.header.prev_hash, i + 1)
         ELSE prev_info

TailHeight(head_info) ==
    Max(1, SaturatingSub(head_info.head.header.height, DIFFICULTY_BLOCK_WINDOW))

\* The tail block get_next_target measures from (None: expect() panics).
TailInfo(db, head_info) ==
    LET tail_height == TailHeight(head_info) IN
    IF head_info.on_main_chain THEN GetChainInfoAt(db, tail_height)
    ELSE LET prev_info == ForkWalk(db, head_info.head.header.prev_hash, 0) IN
         IF prev_info = None THEN None
         ELSE IF prev_info.on_main_chain /\ prev_info.head.header.height > tail_height
              THEN GetChainInfoAt(db, tail_height)
              ELSE prev_info

\* The arithmetic of get_next_target once head and tail are known.
TargetFrom(head_info, tail_info) ==
    LET head == head_info.head.header
        tail == tail_info.head.header
        near == head.height <= DIFFICULTY_BLOCK_WINDOW
        pad == IF near THEN DIFFICULTY_BLOCK_WINDOW - head.height + 1 ELSE 0
        delta_total_difficulty ==
            head_info.total_difficulty - tail_info.total_difficulty + pad
        actual_time == head.timestamp - tail.timestamp + pad * BLOCK_TIME
        expected_time == DIFFICULTY_BLOCK_WINDOW * BLOCK_TIME
        \* adjustment = num / den, clamped to [1/F, F]
        num == IF actual_time * DIFFICULTY_MAX_ADJUSTMENT_FACTOR < expected_time THEN 1
               ELSE IF actual_time > expected_time * DIFFICULTY_MAX_ADJUSTMENT_FACTOR
                    THEN DIFFICULTY_MAX_ADJUSTMENT_FACTOR
                    ELSE actual_time
        den == IF actual_time * DIFFICULTY_MAX_ADJUSTMENT_FACTOR < expected_time
               THEN DIFFICULTY_MAX_ADJUSTMENT_FACTOR
               ELSE IF actual_time > expected_time * DIFFICULTY_MAX_ADJUSTMENT_FACTOR
                    THEN 1
                    ELSE expected_time
        \* average_target * adjustment, average_target = TARGET_MAX / (delta / window)
        next_target == (BLOCK_TARGET_MAX * DIFFICULTY_BLOCK_WINDOW * num)
                           \div (delta_total_difficulty * den)
        clamped == Max(1, Min(BLOCK_TARGET_MAX, next_target))
    IN TargetCompact(clamped)

\* Blockchain::get_next_target(head_hash): [ok, target]; ok is FALSE when an
\* expect() or the head/tail assertion panics.
GetNextTarget(db, st, head_hash) ==
    LET head_info == IF head_hash = None THEN st.main_chain
                     ELSE GetChainInfo(db, head_hash, FALSE)
    IN IF head_info = None THEN [ok |-> FALSE, target |-> 0]
       ELSE LET tail_info == TailInfo(db, head_info) IN
            IF tail_info = None THEN [ok |-> FALSE, target |-> 0]
            ELSE LET hh == head_info.head.header.height
                     th == tail_info.head.header.height
                 IN IF ~(hh - th = DIFFICULTY_BLOCK_WINDOW
                           \/ (hh <= DIFFICULTY_BLOCK_WINDOW /\ th = 1))
                    THEN [ok |-> FALSE, target |-> 0]
                    ELSE [ok |-> TRUE, target |-> TargetFrom(head_info, tail_info)]

\* ------------------------------------------------ Blockchain: locators
\* The number of hashes get_block_locators emits one by one (10 in the
\* code), and GetBlocksMessage::LOCATORS_MAX_COUNT; both scaled down.
LOCATORS_TOP == 2
LOCATORS_MAX_COUNT == 4

RECURSIVE TopLocators(_, _, _)
\* The for loop of get_block_locators: n times, the predecessor hash of the
\* block just looked at, as long as that block is stored.
TopLocators(db, hash, n) ==
    LET info == GetChainInfo(db, hash, FALSE) IN
    IF n = 0 \/ info = None THEN <<>>
    ELSE <<info.head.header.prev_hash>>
             \o TopLocators(db, info.head.header.prev_hash, n - 1)

RECURSIVE BackOff(_, _, _, _)
\* The while loop: main-chain blocks by height at doubling steps.
BackOff(db, locators, step, height) ==
    LET info == GetChainInfoAt(db, height) IN
    IF info = None THEN locators
    ELSE LET l1 == Append(locators, Hash(info.head.header)) IN
         IF Len(l1) >= LOCATORS_MAX_COUNT THEN l1
         ELSE IF height - step * 2 <= 0 THEN l1
         ELSE BackOff(db, l1, step * 2, height - step * 2)

\* Blockchain::get_block_locators
GetBlockLocators(db, st) ==
    LET height == st.main_chain.head.header.height
        top == <<st.head_hash>> \o TopLocators(db, st.head_hash, Min(LOCATORS_TOP, height))
        locators == BackOff(db, top, 2, SaturatingSub(height, LOCATORS_TOP + 2))
    IN IF locators[Len(locators)] # GenesisHash
       THEN (IF Len(locators) >= LOCATORS_MAX_COUNT
             THEN SubSeq(locators, 1, Len(locators) - 1) ELSE locators) \o <<GenesisHash>>
       ELSE locators

\* ------------------------------------------------------ Blockchain: push
\* A chain entry as kept in fork_chain / revert_chain.
Entry(hash, info) == [hash |-> hash, info |-> info]

\* A Known check that finds nothing.
IsKnownNever(db, hash) == FALSE

IsKnown(db, hash) == GetChainInfo(db, hash, FALSE) # None

ExtendsHead(chain_info, st) == chain_info.head.header.prev_hash = st.head_hash

\* Fork choice that also adopts a chain of equal total difficulty.
IsHarderOrEqual(chain_info, st) ==
    chain_info.total_difficulty >= st.main_chain.total_difficulty

IsHarder(chain_info, st) ==
    chain_info.total_difficulty > st.main_chain.total_difficulty

Outcome(kind, chain_info, prev_info) ==
    [kind |-> kind, chain_info |-> chain_info, prev_info |-> prev_info]

\* The checks of push on a stored predecessor with the difficulty compared
\* before the successor check.
CheckSuccessorDifficultyFirst(db, st, block, prev_info) ==
    LET next_target == GetNextTarget(db, st, block.header.prev_hash) IN
    IF ~next_target.ok THEN Outcome("Panic", None, None)
    ELSE IF block.header.n_bits # TargetCompact(next_target.target)
    THEN Outcome("Invalid(DifficultyMismatch)", None, None)
    ELSE IF ~IsImmediateSuccessorOf(block, prev_info.head)
    THEN Outcome("Invalid(InvalidSuccessor)", None, None)
    ELSE LET chain_info == ChainInfoNext(prev_info, block) IN
         IF ExtendsHead(chain_info, st) THEN Outcome("extend", chain_info, prev_info)
         ELSE IF IsHarder(chain_info, st)
              THEN Outcome("rebranch", chain_info, prev_info)
              ELSE Outcome("fork", chain_info, prev_info)

\* The checks of push on a block whose predecessor prev_info is stored, up to
\* the choice between extend, rebranch and fork.
CheckSuccessor(db, st, block, prev_info) ==
    IF ~IsImmediateSuccessorOf(block, prev_info.head)
    THEN Outcome("Invalid(InvalidSuccessor)", None, None)
    ELSE LET next_target == GetNextTarget(db, st, block.header.prev_hash) IN
         IF ~next_target.ok THEN Outcome("Panic", None, None)
         ELSE IF block.header.n_bits # TargetCompact(next_target.target)
              THEN Outcome("Invalid(DifficultyMismatch)", None, None)
         ELSE LET chain_info == ChainInfoNext(prev_info, block) IN
              IF ExtendsHead(chain_info, st) THEN Outcome("extend", chain_info, prev_info)
              ELSE IF IsHarder(chain_info, st)
                   THEN Outcome("rebranch", chain_info, prev_info)
                   ELSE Outcome("fork", chain_info, prev_info)

\* Checks that store a block without a stored predecessor as a fork.
ClassifyKeepingOrphans(db, st, block) ==
    LET prev_info == GetChainInfo(db, block.header.prev_hash, FALSE) IN
    IF IsKnown(db, Hash(block.header)) THEN Outcome("Known", None, None)
    ELSE IF prev_info = None THEN Outcome("fork", ChainInfoInitial(block), None)
    ELSE CheckSuccessor(db, st, block, prev_info)

\* The checks push makes under push_lock.
Classify(db, st, block) ==
    LET prev_info == GetChainInfo(db, block.header.prev_hash, FALSE) IN
    IF IsKnown(db, Hash(block.header)) THEN Outcome("Known", None, None)
    ELSE IF prev_info = None THEN Outcome("Orphan", None, None)
    ELSE CheckSuccessor(db, st, block, prev_info)

\* Creating/extending a fork: the write transaction of push itself.
ForkTxn(db, hash, chain_info) == PutChainInfo(db, hash, chain_info, TRUE)

\* Blockchain::contains
Contains(db, hash, include_forks) ==
    LET info == GetChainInfo(db, hash, FALSE) IN
    IF info = None THEN FALSE ELSE include_forks \/ info.on_main_chain

\* A write transaction that is committed where it should be aborted.
TxnAbortCommitting(db, txn) == IF txn = None THEN db ELSE txn

\* WriteTransaction::abort: the writes made in txn are discarded, the
\* database stays as it was when the transaction began.
TxnAbort(db, txn) == db

\* ---------------------------------------------------- Blockchain: extend
AccountsErrorResult(err) ==
    IF err = "InsufficientFunds" THEN "Invalid(AccountsError(InsufficientFunds))"
    ELSE "Invalid(AccountsError(AccountsHashMismatch))"

\* extend without the replay check.
ExtendPrepareNoReplayCheck(db, st, block_hash, chain_info, prev_info) ==
    LET r == CommitBlock(db.accounts, chain_info.head) IN
    IF ~r.ok
    THEN [ok |-> FALSE, result |-> AccountsErrorResult(r.err),
          txn |-> [db EXCEPT !.accounts = r.acc], chain_info |-> chain_info]
    ELSE LET ci == [chain_info EXCEPT !.on_main_chain = TRUE]
             pi == [prev_info EXCEPT !.main_chain_successor = block_hash]
             t1 == [db EXCEPT !.accounts = r.acc]
             t2 == PutChainInfo(t1, block_hash, ci, TRUE)
             t3 == PutChainInfo(t2, ci.head.header.prev_hash, pi, FALSE)
         IN [ok |-> TRUE, result |-> "Extended", txn |-> SetHead(t3, block_hash),
             chain_info |-> ci]

\* extend that stores the block without committing it to the accounts tree.
ExtendPrepareNoCommit(db, st, block_hash, chain_info, prev_info) ==
    LET ci == [chain_info EXCEPT !.on_main_chain = TRUE]
        pi == [prev_info EXCEPT !.main_chain_successor = block_hash]
        t2 == PutChainInfo(db, block_hash, ci, TRUE)
        t3 == PutChainInfo(t2, ci.head.header.prev_hash, pi, FALSE)
    IN [ok |-> TRUE, result |-> "Extended", txn |-> SetHead(t3, block_hash),
        chain_info |-> ci]

\* extend up to set_head: the replay check, commit_block and the writes into
\* the transaction.  [ok, result, txn, chain_info]
ExtendPrepare(db, st, block_hash, chain_info, prev_info) ==
    IF CacheContainsAny(st.transaction_cache, chain_info.head)
    THEN [ok |-> FALSE, result |-> "Invalid(DuplicateTransaction)",
          txn |-> db, chain_info |-> chain_info]
    ELSE LET r == CommitBlock(db.accounts, chain_info.head) IN
         IF ~r.ok
         THEN [ok |-> FALSE, result |-> AccountsErrorResult(r.err),
               txn |-> [db EXCEPT !.accounts = r.acc], chain_info |-> chain_info]
         ELSE LET ci == [chain_info EXCEPT !.on_main_chain = TRUE]
                  pi == [prev_info EXCEPT !.main_chain_successor = block_hash]
                  t1 == [db EXCEPT !.accounts = r.acc]
                  t2 == PutChainInfo(t1, block_hash, ci, TRUE)
                  t3 == PutChainInfo(t2, ci.head.header.prev_hash, pi, FALSE)
                  t4 == SetHead(t3, block_hash)
              IN [ok |-> TRUE, result |-> "Extended", txn |-> t4, chain_info |-> ci]

\* extend that leaves the published state as it was.
ExtendStateUnpublished(st, block_hash, chain_info) == st

\* The state extend publishes under the write lock.
ExtendState(st, block_hash, chain_info) ==
    [transaction_cache |-> CachePushBlock(st.transaction_cache, chain_info.head),
     main_chain |-> chain_info,
     head_hash |-> block_hash]

ExtendedEvent(st) ==
    [type |-> "Extended", hash |-> st.head_hash, block |-> st.main_chain.head]

\* -------------------------------------------------- Blockchain: rebranch
RECURSIVE ForkChain(_, _)
\* Walk up the fork until a block on the main chain: the common ancestor.
ForkChain(db, current) ==
    IF current.info.on_main_chain
    THEN [ok |-> TRUE, fork_chain |-> <<>>, ancestor |-> current]
    ELSE LET prev_hash == current.info.head.header.prev_hash
             prev_info == GetChainInfo(db, prev_hash, TRUE)
         IN IF prev_info = None
            THEN [ok |-> FALSE, fork_chain |-> <<>>, ancestor |-> current]
            ELSE LET rest == ForkChain(db, Entry(prev_hash, prev_info))
                 IN [rest EXCEPT !.fork_chain = <<current>> \o @]

RECURSIVE RevertLoop(_, _, _, _, _)
\* Revert accounts and cache from the head down to the ancestor.
RevertLoop(db, current, ancestor_hash, acc, cache) ==
    IF current.hash = ancestor_hash
    THEN [ok |-> TRUE, acc |-> acc, cache |-> cache, revert_chain |-> <<>>]
    ELSE LET r == RevertBlock(acc, current.info.head)
             prev_hash == current.info.head.header.prev_hash
             prev_info == GetChainInfo(db, prev_hash, TRUE)
         IN IF ~r.ok \/ prev_info = None
            THEN [ok |-> FALSE, acc |-> acc, cache |-> cache, revert_chain |-> <<>>]
            ELSE IF prev_info.head.header.accounts_hash # AccountsHash(r.acc)
            THEN [ok |-> FALSE, acc |-> acc, cache |-> cache, revert_chain |-> <<>>]
            ELSE LET rest == RevertLoop(db, Entry(prev_hash, prev_info), ancestor_hash, r.acc,
                                        CacheRevertBlock(cache, current.info.head))
                 IN [rest EXCEPT !.revert_chain = <<current>> \o @]

RECURSIVE PrependAll(_, _)
PrependAll(cache, blocks) ==
    IF blocks = <<>> THEN cache
    ELSE PrependAll(CachePrependBlock(cache, Head(blocks)), Tail(blocks))

RECURSIVE ApplyFork(_, _, _)
\* Check each fork block against the cache and commit it, oldest first.
\* `blocks` is fork_chain reversed.  On failure `acc` is what the write
\* transaction holds at that point.
ApplyFork(blocks, acc, cache) ==
    IF blocks = <<>> THEN [ok |-> TRUE, acc |-> acc, cache |-> cache]
    ELSE LET b == Head(blocks).info.head IN
         IF CacheContainsAny(cache, b) THEN [ok |-> FALSE, acc |-> acc, cache |-> cache]
         ELSE LET r == CommitBlock(acc, b) IN
              IF ~r.ok THEN [ok |-> FALSE, acc |-> r.acc, cache |-> cache]
              ELSE ApplyFork(Tail(blocks), r.acc, CachePushBlock(cache, b))

Reverse(s) == [i \in 1..Len(s) |-> s[Len(s) + 1 - i]]

RebranchFail(result) ==
    [ok |-> FALSE, result |-> result, fork_chain |-> <<>>, revert_chain |-> <<>>,
     ancestor |-> None, txn |-> None, cache_txn |-> <<>>]

\* rebranch up to "Fork looks good": fork_chain, revert_chain, the accounts
\* changes in the write transaction and the new cache.
RebranchPrepare(db, st, block_hash, chain_info) ==
    LET fc == ForkChain(db, Entry(block_hash, chain_info)) IN
    IF ~fc.ok THEN RebranchFail("Panic")
    ELSE LET rv == RevertLoop(db, Entry(st.head_hash, st.main_chain), fc.ancestor.hash,
                              db.accounts, st.transaction_cache)
         IN IF ~rv.ok THEN RebranchFail("Panic")
            ELSE IF ~(CacheIsEmpty(rv.cache) \/ CacheHeadHash(rv.cache) = fc.ancestor.hash)
            THEN RebranchFail("Panic")
            ELSE IF CacheIsEmpty(rv.cache) /\ fc.ancestor.info.main_chain_successor = None
            THEN RebranchFail("Panic")
            ELSE LET start_hash == IF CacheIsEmpty(rv.cache)
                                   THEN fc.ancestor.info.main_chain_successor
                                   ELSE CacheTailHash(rv.cache)
                     blocks == GetBlocksBackward(db, start_hash,
                                                 CacheMissingBlocks(rv.cache), TRUE)
                     cache1 == PrependAll(rv.cache, blocks)
                 IN IF CacheMissingBlocks(cache1) #
                         SaturatingSub(TRANSACTION_VALIDITY_WINDOW,
                                       fc.ancestor.info.head.header.height)
                    THEN RebranchFail("Panic")
                    ELSE LET ap == ApplyFork(Reverse(fc.fork_chain), rv.acc, cache1) IN
                         IF ~ap.ok
                         THEN [RebranchFail("Invalid(InvalidFork)")
                                  EXCEPT !.txn = [db EXCEPT !.accounts = ap.acc]]
                         ELSE [ok |-> TRUE, result |-> "Rebranched",
                               fork_chain |-> fc.fork_chain,
                               revert_chain |-> rv.revert_chain,
                               ancestor |-> fc.ancestor,
                               txn |-> [db EXCEPT !.accounts = ap.acc],
                               cache_txn |-> ap.cache]

RECURSIVE PutReverted(_, _)
\* Unset on_main_chain / main_chain_successor on the reverted blocks.
PutReverted(txn, revert_chain) ==
    IF revert_chain = <<>> THEN txn
    ELSE LET e == Head(revert_chain)
             info == [e.info EXCEPT !.on_main_chain = FALSE, !.main_chain_successor = None]
         IN PutReverted(PutChainInfo(txn, e.hash, info, FALSE), Tail(revert_chain))

\* fork_chain[i] as it is written back: on the main chain, successor set.
Adopted(fork_chain, i) ==
    Entry(fork_chain[i].hash,
          [fork_chain[i].info EXCEPT
              !.on_main_chain = TRUE,
              !.main_chain_successor = IF i > 1 THEN fork_chain[i - 1].hash ELSE None])

RECURSIVE PutAdopted(_, _, _)
\* Set on_main_chain / main_chain_successor on the fork, from its oldest block
\* (the last of fork_chain) to the pushed block (the first).
PutAdopted(txn, fork_chain, i) ==
    IF i = 0 THEN txn
    ELSE PutAdopted(PutChainInfo(txn, fork_chain[i].hash, Adopted(fork_chain, i).info, i = 1),
                    fork_chain, i - 1)

\* The writes rebranch makes under the write lock, before the commit.
RebranchTxn(txn, revert_chain, ancestor, fork_chain) ==
    LET t1 == PutReverted(txn, revert_chain)
        anc == [ancestor.info EXCEPT
                   !.main_chain_successor = fork_chain[Len(fork_chain)].hash]
        t2 == PutChainInfo(t1, ancestor.hash, anc, FALSE)
    IN PutAdopted(t2, fork_chain, Len(fork_chain))

\* The state rebranch publishes after the commit.
RebranchState(fork_chain, cache_txn) ==
    [transaction_cache |-> cache_txn,
     main_chain |-> Adopted(fork_chain, 1).info,
     head_hash |-> fork_chain[1].hash]

HashBlockPairs(chain) == [i \in 1..Len(chain) |-> <<chain[i].hash, chain[i].info.head>>]

\* The event with both lists in the order the chains were walked (head first).
RebranchedEventUnordered(revert_chain, fork_chain) ==
    [type |-> "Rebranched",
     reverted |-> HashBlockPairs(revert_chain),
     adopted |-> HashBlockPairs(fork_chain)]

RebranchedEvent(revert_chain, fork_chain) ==
    [type |-> "Rebranched",
     reverted |-> HashBlockPairs(Reverse(revert_chain)),
     adopted |-> HashBlockPairs(Reverse(fork_chain))]

\* ----------------------------------------------- Blockchain: init and load
InitDb ==
    LET t1 == PutChainInfo(EmptyDb, GenesisHash, ChainInfoInitial(GenesisBlock), TRUE)
    IN SetHead(t1, GenesisHash)

InitState ==
    [transaction_cache |-> CacheNew,
     main_chain |-> ChainInfoInitial(GenesisBlock),
     head_hash |-> GenesisHash]

RECURSIVE PushAll(_, _)
PushAll(cache, blocks) ==
    IF blocks = <<>> THEN cache
    ELSE PushAll(CachePushBlock(cache, Head(blocks)), Tail(blocks))

\* Blockchain::load: [ok, state]; ok is FALSE when one of its assertions fails.
Load(db) ==
    LET genesis_info == GetChainInfo(db, GenesisHash, FALSE)
        main_chain == GetChainInfo(db, db.head, TRUE)
    IN IF genesis_info = None \/ main_chain = None THEN [ok |-> FALSE, state |-> None]
       ELSE IF ~genesis_info.on_main_chain THEN [ok |-> FALSE, state |-> None]
       ELSE IF main_chain.head.header.accounts_hash # AccountsHash(db.accounts)
            THEN [ok |-> FALSE, state |-> None]
       ELSE LET blocks == GetBlocksBackward(db, db.head,
                                            CacheMissingBlocks(CacheNew) - 1, TRUE)
                cache == CachePushBlock(PushAll(CacheNew, Reverse(blocks)), main_chain.head)
            IN IF CacheMissingBlocks(cache) #
                    SaturatingSub(TRANSACTION_VALIDITY_WINDOW, main_chain.head.header.height)
               THEN [ok |-> FALSE, state |-> None]
               ELSE [ok |-> TRUE,
                     state |-> [transaction_cache |-> cache, main_chain |-> main_chain,
                                head_hash |-> db.head]]

\* ------------------------------------------------------- blocks offered
\* The balances a header commits to.
AccountsOfHash(h) == [x \in Addr |-> IF x = "a" THEN h[1] ELSE h[2]]

\* The accounts_hash a producer building on prev_header puts into its block.
ProducedAccountsHash(prev_header, txs) ==
    LET r == ApplyTxs(AccountsOfHash(prev_header.accounts_hash), txs) IN
    IF r.ok THEN AccountsHash([r.acc EXCEPT ![Miner] = @ + BLOCK_REWARD])
    ELSE prev_header.accounts_hash

\* A well-formed successor of the stored block p.
Template(db, st, p, dt, txs) ==
    LET prev == db.chain_db[p].head.header
        nt == GetNextTarget(db, st, p)
    IN MkBlock(p, prev.height + 1, prev.timestamp + dt,
               IF nt.ok THEN nt.target ELSE BLOCK_TARGET_MAX,
               ProducedAccountsHash(prev, txs), txs, 0)

Shapes == {<<BLOCK_TIME, <<>>>>, <<0, <<Tx1>>>>}

WellFormed(db, st) ==
    {Template(db, st, p, sh[1], sh[2]) : p \in DOMAIN db.chain_db, sh \in Shapes}

\* Successors whose accounts_hash is not the root their body produces.
BadAccounts(db, st) ==
    {[Template(db, st, p, BLOCK_TIME, <<>>)
         EXCEPT !.header.accounts_hash = db.chain_db[p].head.header.accounts_hash] :
        p \in DOMAIN db.chain_db}

OtherTarget(n_bits) == IF n_bits = BLOCK_TARGET_MAX THEN BLOCK_TARGET_MAX \div 2
                       ELSE BLOCK_TARGET_MAX

\* Successors that fail one check of push.
Faulty(db, st) ==
    LET base == {Template(db, st, p, BLOCK_TIME, <<>>) : p \in {db.head, GenesisHash}} IN
         {[b EXCEPT !.header.height = @ + 1] : b \in base}
    \cup {[b EXCEPT !.header.n_bits = OtherTarget(@)] : b \in base}
    \cup {[b EXCEPT !.header.nonce = 1] : b \in {Template(db, st, db.head, BLOCK_TIME, <<>>)}}

\* Blocks whose predecessor is a well-formed block that is not stored.
Orphans(db, st) ==
    {MkBlock(Hash(c.header), c.header.height + 1, c.header.timestamp + BLOCK_TIME,
             BLOCK_TARGET_MAX, ProducedAccountsHash(c.header, <<>>), <<>>, 0) :
        c \in {Template(db, st, db.head, BLOCK_TIME, <<>>)}}

StoredBlocks(db) ==
    {[header |-> db.chain_db[h].head.header, body |-> db.block_db[h]] : h \in DOMAIN db.chain_db}

\* Blocks that fail two checks of push at once: a stored header with another
\* body, an orphan without proof of work, a successor with a wrong height
\* and a wrong difficulty.
DoubleFaulty(db, st) ==
    LET base == {Template(db, st, p, BLOCK_TIME, <<>>) : p \in {db.head, GenesisHash}} IN
         {[b EXCEPT !.body.transactions = <<Tx1>>] :
             b \in {x \in StoredBlocks(db) : x.body.transactions = <<>>}}
    \cup {[b EXCEPT !.header.nonce = 1] : b \in Orphans(db, st)}
    \cup {[b EXCEPT !.header.height = @ + 1, !.header.n_bits = OtherTarget(@)] : b \in base}

NumStored(db) == Cardinality(DOMAIN db.chain_db) - 1

Offered(db, st) ==
    StoredBlocks(db) \cup
    (IF NumStored(db) < MaxBlocks
     THEN WellFormed(db, st) \cup BadAccounts(db, st) \cup Faulty(db, st) \cup Orphans(db, st)
          \cup DoubleFaulty(db, st)
     ELSE {})

\* ================================================ network: ConnectionPool
\* Protocol constants of the network module, scaled down.
PEER_COUNT_MAX == 1
PEER_COUNT_PER_IP_MAX == 1
INBOUND_PEER_COUNT_PER_SUBNET_MAX == 1
OUTBOUND_PEER_COUNT_PER_SUBNET_MAX == 1
PEER_COUNT_DUMB_MAX == 1

\* An IPv4 net address: the subnet part, the host part, and whether it is
\* reliable.
NetAddress(subnet, host, reliable) ==
    [subnet |-> subnet, host |-> host, reliable |-> reliable, type |-> "IPv4"]

\* An IPv6 net address: its first 64 bits and its last 64 bits.
NetAddress6(prefix, host) ==
    [subnet |-> prefix, host |-> host, reliable |-> TRUE, type |-> "IPv6"]

\* net_address.subnet(64): the address with the bits after the first 64
\* cleared.
Subnet64(net_address) == [net_address EXCEPT !.host = 0]

\* The close types for which is_banning_type() holds.
BanningTypes == {"ReceivedInvalidBlock"}

\* ConnectionPool::get_subnet_address: the address with the host bits masked.
GetSubnetAddress(net_address) == [net_address EXCEPT !.host = 0]

PeerAddress(peer_id, protocol, net_address) ==
    [peer_id |-> peer_id, protocol |-> protocol, net_address |-> net_address]

\* A network connection as the pool sees it; peer_address is known for
\* outbound connections only.
NetworkConnection(socket, inbound, net_address, peer_address) ==
    [socket |-> socket, inbound |-> inbound, net_address |-> net_address,
     peer_address |-> peer_address]

\* The peer a network agent reports with Version and Handshake.
Peer(peer_address, net_address) == [peer_address |-> peer_address, net_address |-> net_address]

\* ------------------------------------------------------------- SparseVec
SparseVecNew == [inner |-> <<>>, free_indices |-> <<>>]

SparseVecGet(v, index) ==
    IF index + 1 \in DOMAIN v.inner THEN v.inner[index + 1] ELSE None

\* remove that frees the index of every slot of the vector, empty or not.
SparseVecRemoveAlways(v, index) ==
    LET value == SparseVecGet(v, index) IN
    IF index + 1 \notin DOMAIN v.inner THEN [vec |-> v, value |-> None]
    ELSE [vec |-> [inner |-> [v.inner EXCEPT ![index + 1] = None],
                   free_indices |-> Append(v.free_indices, index)],
          value |-> value]

\* [vec, value]
SparseVecRemove(v, index) ==
    LET value == SparseVecGet(v, index) IN
    IF value = None THEN [vec |-> v, value |-> None]
    ELSE [vec |-> [inner |-> [v.inner EXCEPT ![index + 1] = None],
                   free_indices |-> Append(v.free_indices, index)],
          value |-> value]

\* [vec, index]
SparseVecInsert(v, value) ==
    IF v.free_indices # <<>>
    THEN LET index == Head(v.free_indices) IN
         [vec |-> [inner |-> [v.inner EXCEPT ![index + 1] = IF @ = None THEN value ELSE @],
                   free_indices |-> Tail(v.free_indices)],
          index |-> index]
    ELSE [vec |-> [v EXCEPT !.inner = Append(@, value)], index |-> Len(v.inner)]

\* -------------------------------------------------------- ConnectionInfo
InfoOutbound(peer_address) ==
    [state |-> "Connecting", peer_address |-> peer_address, network_connection |-> None,
     peer_channel |-> FALSE, peer |-> None, connection_handle |-> FALSE]

InfoInbound(connection) ==
    [state |-> "Connected", peer_address |-> None, network_connection |-> connection,
     peer_channel |-> FALSE, peer |-> None, connection_handle |-> FALSE]

SetNetworkConnection(info, connection) ==
    [info EXCEPT !.network_connection = connection, !.state = "Connected"]

SetPeer(info, peer) == [info EXCEPT !.peer = peer, !.state = "Established"]

\* --------------------------------------------------- ConnectionPoolState
\* The counters per service (full, light, nano) are left out: no check of
\* the pool reads them.
PoolStateNew ==
    [connections |-> SparseVecNew,
     connections_by_peer_address |-> <<>>,
     connections_by_net_address |-> <<>>,
     connections_by_subnet |-> <<>>,
     peer_count_ws |-> 0, peer_count_wss |-> 0, peer_count_rtc |-> 0, peer_count_dumb |-> 0,
     peer_count_outbound |-> 0,
     connecting_count |-> 0,
     inbound_count |-> 0,
     allow_inbound_connections |-> FALSE,
     allow_inbound_exchange |-> FALSE,
     banned_ips |-> {}]

Del(f, k) == [x \in DOMAIN f \ {k} |-> f[x]]

\* connection_iter: the infos indexed by peer address.
ConnectionIter(st) ==
    {SparseVecGet(st.connections, st.connections_by_peer_address[a]) :
        a \in DOMAIN st.connections_by_peer_address}

GetConnectionByPeerAddress(st, peer_address) ==
    IF peer_address \in DOMAIN st.connections_by_peer_address
    THEN SparseVecGet(st.connections, st.connections_by_peer_address[peer_address])
    ELSE None

GetConnection(st, connection_id) == SparseVecGet(st.connections, connection_id)

GetNumConnectionsByNetAddress(st, net_address) ==
    IF net_address \in DOMAIN st.connections_by_net_address
    THEN Cardinality(st.connections_by_net_address[net_address]) ELSE 0

GetNumConnectionsBySubnet(st, net_address) ==
    LET subnet == GetSubnetAddress(net_address) IN
    IF subnet \in DOMAIN st.connections_by_subnet
    THEN Cardinality(st.connections_by_subnet[subnet]) ELSE 0

GetNumOutboundConnectionsBySubnet(st, net_address) ==
    LET subnet == GetSubnetAddress(net_address) IN
    IF subnet \in DOMAIN st.connections_by_subnet
    THEN Cardinality({i \in st.connections_by_subnet[subnet] :
             LET info == SparseVecGet(st.connections, i) IN
             IF info.network_connection = None THEN FALSE
             ELSE ~info.network_connection.inbound})
    ELSE 0

\* Total peer count.
PeerCount(st) ==
    st.peer_count_ws + st.peer_count_wss + st.peer_count_rtc + st.peer_count_dumb

Count(st) == Cardinality(DOMAIN st.connections_by_peer_address) + st.inbound_count

\* add: [state, connection_id]
PoolAdd(st, info) ==
    LET r == SparseVecInsert(st.connections, info)
        s1 == [st EXCEPT !.connections = r.vec]
    IN [state |-> IF info.peer_address = None THEN s1
                  ELSE [s1 EXCEPT !.connections_by_peer_address =
                                      Put(@, info.peer_address, r.index)],
        connection_id |-> r.index]

\* add_peer_address that leaves the index as it is.
AddPeerAddressNowhere(st, connection_id, peer_address) == st

AddPeerAddress(st, connection_id, peer_address) ==
    [st EXCEPT !.connections_by_peer_address = Put(@, peer_address, connection_id)]

SetAdd(f, k, connection_id) ==
    Put(f, k, (IF k \in DOMAIN f THEN f[k] ELSE {}) \cup {connection_id})

SetRemove(f, k, connection_id) ==
    IF k \notin DOMAIN f THEN f
    ELSE IF f[k] \ {connection_id} = {} THEN Del(f, k)
    ELSE Put(f, k, f[k] \ {connection_id})

AddNetAddress(st, connection_id, net_address) ==
    IF ~net_address.reliable THEN st
    ELSE [st EXCEPT
            !.connections_by_net_address = SetAdd(@, net_address, connection_id),
            !.connections_by_subnet = SetAdd(@, GetSubnetAddress(net_address), connection_id)]

RemoveNetAddress(st, connection_id, net_address) ==
    IF ~net_address.reliable THEN st
    ELSE [st EXCEPT
            !.connections_by_net_address = SetRemove(@, net_address, connection_id),
            !.connections_by_subnet = SetRemove(@, GetSubnetAddress(net_address), connection_id)]

\* remove: [ok, state, info]; ok is FALSE when the slot is empty (unwrap).
PoolRemove(st, connection_id) ==
    LET r == SparseVecRemove(st.connections, connection_id) IN
    IF r.value = None THEN [ok |-> FALSE, state |-> st, info |-> None]
    ELSE LET info == r.value
             s1 == [st EXCEPT !.connections = r.vec]
             s2 == IF info.peer_address = None THEN s1
                   ELSE [s1 EXCEPT !.connections_by_peer_address = Del(@, info.peer_address)]
             s3 == IF info.network_connection = None THEN s2
                   ELSE RemoveNetAddress(s2, connection_id, info.network_connection.net_address)
         IN [ok |-> TRUE, state |-> s3, info |-> info]

\* ban_ip; the time the ban ends is left out.
BanIp(st, net_address) ==
    IF ~net_address.reliable THEN st
    ELSE [st EXCEPT !.banned_ips =
             @ \cup {IF net_address.type = "IPv4" THEN net_address
                     ELSE Subnet64(net_address)}]

\* is_ip_banned
IsIpBanned(st, net_address) == net_address \in st.banned_ips

\* update_connected_peer_count that leaves the outbound counter alone.
UpdateConnectedPeerCountNoOutbound(st, info, delta) ==
    LET p == info.peer_address.protocol
        s1 == IF p = "Wss" THEN [st EXCEPT !.peer_count_wss = @ + delta]
              ELSE IF p = "Ws" THEN [st EXCEPT !.peer_count_ws = @ + delta]
              ELSE IF p = "Rtc" THEN [st EXCEPT !.peer_count_rtc = @ + delta]
              ELSE [st EXCEPT !.peer_count_dumb = @ + delta]
    IN [ok |-> /\ s1.peer_count_ws >= 0 /\ s1.peer_count_wss >= 0
               /\ s1.peer_count_rtc >= 0 /\ s1.peer_count_dumb >= 0,
        state |-> s1]

\* update_connected_peer_count; delta is +1 for Add and -1 for Remove.
\* [ok, state]; ok is FALSE when a counter would go below zero.
UpdateConnectedPeerCount(st, info, delta) ==
    LET p == info.peer_address.protocol
        s1 == IF p = "Wss" THEN [st EXCEPT !.peer_count_wss = @ + delta]
              ELSE IF p = "Ws" THEN [st EXCEPT !.peer_count_ws = @ + delta]
              ELSE IF p = "Rtc" THEN [st EXCEPT !.peer_count_rtc = @ + delta]
              ELSE [st EXCEPT !.peer_count_dumb = @ + delta]
        s2 == IF info.network_connection.inbound THEN s1
              ELSE [s1 EXCEPT !.peer_count_outbound = @ + delta]
    IN [ok |-> /\ s2.peer_count_ws >= 0 /\ s2.peer_count_wss >= 0
               /\ s2.peer_count_rtc >= 0 /\ s2.peer_count_dumb >= 0
               /\ s2.peer_count_outbound >= 0,
        state |-> s2]

\* -------------------------------------------------- ConnectionPool: checks
\* What a handler of the pool leaves behind: the pool state, the close
\* requests it made (ConnectionPool::close / peer_channel.close), the events
\* it handed to the notifier (with `locked`: the state write lock was held),
\* and the message of a failed assertion / expect / unwrap ("" for none).
Result(st, closes, events, msg) ==
    [state |-> st, closes |-> closes, events |-> events, fault |-> msg]

CloseRequest(socket, ty) == [socket |-> socket, ty |-> ty]

Event(type, socket, locked) == [type |-> type, socket |-> socket, locked |-> locked]

\* No socket: the event is about no single connection.
NoSocket == <<"", 0>>

UpdateInfo(st, connection_id, info) ==
    [st EXCEPT !.connections.inner[connection_id + 1] = info]

\* The peer addresses the address book has banned.
BannedAddresses == {PeerAddress(7, "Ws", NetAddress(2, 2, TRUE))}

\* check_connection that lets inbound connections in whatever the gate says.
CheckConnectionUngated(st, connection_id) ==
    LET conn == GetConnection(st, connection_id).network_connection
        net_address == conn.net_address
    IN IF net_address.reliable /\ IsIpBanned(st, net_address) THEN "BannedIp"
       ELSE IF net_address.reliable
               /\ GetNumConnectionsByNetAddress(st, net_address) > PEER_COUNT_PER_IP_MAX
       THEN "ConnectionLimitPerIp"
       ELSE IF net_address.reliable
               /\ GetNumConnectionsBySubnet(st, net_address) > INBOUND_PEER_COUNT_PER_SUBNET_MAX
       THEN "ConnectionLimitPerIp"
       ELSE IF PeerCount(st) >= PEER_COUNT_MAX /\ conn.inbound
               /\ ~(conn.inbound /\ st.allow_inbound_exchange)
       THEN "MaxPeerCountReached"
       ELSE ""

\* check_connection: the close type the connection is rejected with, "" when
\* it is accepted.
CheckConnection(st, connection_id) ==
    LET conn == GetConnection(st, connection_id).network_connection
        net_address == conn.net_address
    IN IF conn.inbound /\ ~st.allow_inbound_connections THEN "InboundConnectionsBlocked"
       ELSE IF net_address.reliable /\ IsIpBanned(st, net_address) THEN "BannedIp"
       ELSE IF net_address.reliable
               /\ GetNumConnectionsByNetAddress(st, net_address) > PEER_COUNT_PER_IP_MAX
       THEN "ConnectionLimitPerIp"
       ELSE IF net_address.reliable
               /\ GetNumConnectionsBySubnet(st, net_address) > INBOUND_PEER_COUNT_PER_SUBNET_MAX
       THEN "ConnectionLimitPerIp"
       ELSE IF PeerCount(st) >= PEER_COUNT_MAX /\ conn.inbound
               /\ ~(conn.inbound /\ st.allow_inbound_exchange)
       THEN "MaxPeerCountReached"
       ELSE ""

\* check_outbound_connection_request
CheckOutboundConnectionRequest(st, peer_address) ==
    /\ peer_address.protocol \in {"Wss", "Ws"}
    /\ peer_address \notin BannedAddresses
    /\ GetConnectionByPeerAddress(st, peer_address) = None
    /\ peer_address.net_address.reliable =>
          /\ ~(GetNumConnectionsByNetAddress(st, peer_address.net_address)
                  >= PEER_COUNT_PER_IP_MAX)
          /\ ~(GetNumOutboundConnectionsBySubnet(st, peer_address.net_address)
                  >= OUTBOUND_PEER_COUNT_PER_SUBNET_MAX)

\* ------------------------------------------------ ConnectionPool: handlers
\* connect_outbound that accepts every request.
ConnectOutboundUnchecked(st, peer_address) ==
    LET a == PoolAdd(st, InfoOutbound(peer_address))
        info == GetConnection(a.state, a.connection_id)
    IN [ok |-> TRUE,
        state |-> [UpdateInfo(a.state, a.connection_id,
                              [info EXCEPT !.connection_handle = TRUE])
                      EXCEPT !.connecting_count = @ + 1]]

\* connect_outbound: [ok, state]
ConnectOutbound(st, peer_address) ==
    IF ~CheckOutboundConnectionRequest(st, peer_address) THEN [ok |-> FALSE, state |-> st]
    ELSE LET a == PoolAdd(st, InfoOutbound(peer_address))
             info == GetConnection(a.state, a.connection_id)
         IN [ok |-> TRUE,
             state |-> [UpdateInfo(a.state, a.connection_id,
                                   [info EXCEPT !.connection_handle = TRUE])
                           EXCEPT !.connecting_count = @ + 1]]

\* disconnect: the close requests it makes.
Disconnect(st) ==
    {CloseRequest(info.network_connection.socket, "ManualNetworkDisconnect") :
        info \in {i \in ConnectionIter(st) : i.peer_channel}}

\* on_connection from "Register close listener" on.  The result also says
\* which connection id the close listener captured and whether the network
\* agent was created and the handshake initiated.
Admit(st, connection_id) ==
    LET info == GetConnection(st, connection_id)
        socket == info.network_connection.socket
        ty == CheckConnection(st, connection_id)
    IN IF ty # ""
       THEN [state |-> st, closes |-> <<CloseRequest(socket, ty)>>, events |-> <<>>,
             fault |-> "", connection_id |-> connection_id, agent |-> FALSE]
       ELSE LET s1 == AddNetAddress(st, connection_id, info.network_connection.net_address)
                s2 == UpdateInfo(s1, connection_id,
                                 [info EXCEPT !.connection_handle = FALSE,
                                              !.peer_channel = TRUE])
            IN [state |-> s2, closes |-> <<>>,
                events |-> <<Event("Connection", socket, FALSE)>>,
                fault |-> "", connection_id |-> connection_id, agent |-> TRUE]

\* on_connection
OnConnection(st, connection) ==
    IF ~connection.inbound
    THEN LET peer_address == connection.peer_address
             refused == [state |-> st,
                         closes |-> <<CloseRequest(connection.socket, "InvalidConnectionState")>>,
                         events |-> <<>>, fault |-> "", connection_id |-> -1, agent |-> FALSE]
         IN IF peer_address \notin DOMAIN st.connections_by_peer_address THEN refused
            ELSE LET connection_id == st.connections_by_peer_address[peer_address]
                     info == GetConnection(st, connection_id)
                 IN IF info.state # "Connecting" THEN refused
                    ELSE IF st.connecting_count = 0
                    THEN [refused EXCEPT !.closes = <<>>, !.fault = "connecting_count < 0"]
                    ELSE Admit(UpdateInfo([st EXCEPT !.connecting_count = @ - 1], connection_id,
                                          SetNetworkConnection(info, connection)),
                               connection_id)
    ELSE LET a == PoolAdd(st, InfoInbound(connection))
         IN Admit([a.state EXCEPT !.inbound_count = @ + 1], a.connection_id)

\* check_handshake
CheckHandshake(st, connection_id, peer) ==
    LET info == GetConnection(st, connection_id)
        peer_address == peer.peer_address
        stored == GetConnectionByPeerAddress(st, peer_address)
    IN IF info = None THEN Result(st, <<>>, <<>>, "Missing connection")
       ELSE LET socket == info.network_connection.socket IN
            IF peer_address \in BannedAddresses
            THEN Result(st, <<CloseRequest(socket, "PeerIsBanned")>>, <<>>, "")
            ELSE IF /\ stored # None
                    /\ st.connections_by_peer_address[peer_address] # connection_id
                    /\ stored.state = "Established"
            THEN Result(st, <<CloseRequest(socket, "DuplicateConnection")>>, <<>>, "")
            ELSE IF peer_address.protocol = "Dumb" /\ st.peer_count_dumb >= PEER_COUNT_DUMB_MAX
            THEN Result(st, <<CloseRequest(socket, "ConnectionLimitDumb")>>, <<>>, "")
            ELSE Result(UpdateInfo(st, connection_id, [info EXCEPT !.state = "Negotiating"]),
                        <<>>, <<>>, "")

\* on_handshake from "Write lock" on without the assertion that no info is
\* stored for the peer address.
AcceptHandshakeUnasserted(st, connection_id, peer, is_inbound, closes) ==
    LET peer_address == peer.peer_address
        info == GetConnection(st, connection_id)
        socket == info.network_connection.socket
        s1 == IF is_inbound
              THEN [AddPeerAddress(UpdateInfo(st, connection_id,
                                       [info EXCEPT !.peer_address = peer_address]),
                                   connection_id, peer_address)
                       EXCEPT !.inbound_count = @ - 1]
              ELSE st
        info1 == SetPeer(GetConnection(s1, connection_id), peer)
        s2 == AddNetAddress(UpdateInfo(s1, connection_id, info1), connection_id,
                            peer.net_address)
        u == UpdateConnectedPeerCount(s2, info1, 1)
    IN Result(u.state, closes,
              <<Event("PeerJoined", socket, FALSE), Event("PeersChanged", NoSocket, FALSE)>>,
              "")

\* on_handshake from "Write lock" on: the handshake is accepted.  `closes`
\* are the close requests made before.
AcceptHandshake(st, connection_id, peer, is_inbound, closes) ==
    LET peer_address == peer.peer_address
        info == GetConnection(st, connection_id)
        socket == info.network_connection.socket
    IN IF is_inbound /\ GetConnectionByPeerAddress(st, peer_address) # None
       THEN Result(st, closes, <<>>, "ConnectionInfo already exists")
       ELSE IF is_inbound /\ st.inbound_count = 0
       THEN Result(st, closes, <<>>, "inbound_count < 0")
       ELSE LET s1 == IF is_inbound
                      THEN [AddPeerAddress(UpdateInfo(st, connection_id,
                                               [info EXCEPT !.peer_address = peer_address]),
                                           connection_id, peer_address)
                               EXCEPT !.inbound_count = @ - 1]
                      ELSE st
                recycling == IF PeerCount(s1) >= PEER_COUNT_MAX
                             THEN <<Event("RecyclingRequest", NoSocket, FALSE)>> ELSE <<>>
                info1 == SetPeer(GetConnection(s1, connection_id), peer)
                s2 == AddNetAddress(UpdateInfo(s1, connection_id, info1), connection_id,
                                    peer.net_address)
                u == UpdateConnectedPeerCount(s2, info1, 1)
            IN IF ~info1.peer_channel
               THEN Result(u.state, closes, recycling, "peer_channel().unwrap()")
               ELSE Result(u.state, closes,
                           recycling \o <<Event("PeerJoined", socket, FALSE),
                                          Event("PeersChanged", NoSocket, FALSE)>>,
                           "")

\* on_handshake that accepts every handshake it is given.
OnHandshakeUncapped(st, peer_id, connection_id, peer) ==
    AcceptHandshake(st, connection_id, peer,
                    GetConnection(st, connection_id).network_connection.inbound, <<>>)

\* on_handshake of the node whose own peer id is peer_id.  A close request
\* takes effect when on_close runs, so the info it is about is still there
\* when the next assertion looks.
OnHandshake(st, peer_id, connection_id, peer) ==
    LET info == GetConnection(st, connection_id)
        peer_address == peer.peer_address
        stored == GetConnectionByPeerAddress(st, peer_address)
    IN IF info = None THEN Result(st, <<>>, <<>>, "Missing connection")
       ELSE IF ~info.network_connection.inbound
       THEN AcceptHandshake(st, connection_id, peer, FALSE, <<>>)
       ELSE LET this == info.network_connection.socket IN
            IF PeerCount(st) >= PEER_COUNT_MAX /\ ~st.allow_inbound_exchange
            THEN Result(st, <<CloseRequest(this, "MaxPeerCountReached")>>, <<>>, "")
            ELSE IF stored = None \/ st.connections_by_peer_address[peer_address] = connection_id
            THEN AcceptHandshake(st, connection_id, peer, TRUE, <<>>)
            ELSE IF stored.state = "Connecting"
            THEN IF peer_address.protocol \notin {"Wss", "Ws"}
                 THEN Result(st, <<>>, <<>>, "Duplicate connection to non-WS node")
                 ELSE Result(st, <<>>, <<>>, "ConnectionInfo not removed")
            ELSE IF stored.state = "Established"
            THEN Result(st, <<CloseRequest(this, "DuplicateConnection")>>, <<>>, "")
            ELSE IF stored.state = "Negotiating" /\ ~(peer_id < peer_address.peer_id)
            THEN AcceptHandshake(st, connection_id, peer, TRUE,
                                 <<CloseRequest(this, "SimultaneousConnection")>>)
            ELSE Result(st,
                        IF stored.network_connection = None THEN <<>>
                        ELSE <<CloseRequest(stored.network_connection.socket,
                                            "SimultaneousConnection")>>,
                        <<>>, "ConnectionInfo not removed")

\* on_close that announces the Close before the PeerLeft.
OnCloseEventsCloseFirst(info) ==
    LET socket == info.network_connection.socket IN
    IF info.state = "Established"
    THEN <<Event("Close", socket, FALSE), Event("PeerLeft", socket, FALSE),
           Event("PeersChanged", NoSocket, FALSE)>>
    ELSE <<Event("Close", socket, FALSE)>>

\* on_close: the events it hands to the notifier for the removed info, in
\* order.  ConnectError is notified inside the block of the write lock.
OnCloseEvents(info) ==
    LET socket == info.network_connection.socket IN
    IF info.state = "Established"
    THEN <<Event("PeerLeft", socket, FALSE), Event("PeersChanged", NoSocket, FALSE),
           Event("Close", socket, FALSE)>>
    ELSE IF info.network_connection.inbound
    THEN <<Event("Close", socket, FALSE)>>
    ELSE <<Event("ConnectError", socket, TRUE), Event("Close", socket, FALSE)>>

\* on_close
OnClose(st, connection_id, ty) ==
    LET info == GetConnection(st, connection_id) IN
    IF info = None THEN Result(st, <<>>, <<>>, "Missing connection")
    ELSE LET r == PoolRemove(st, connection_id) IN
         IF info.state = "Established"
         THEN LET banned == IF ty \in BanningTypes
                           THEN BanIp(r.state, info.network_connection.net_address)
                           ELSE r.state
                  u == UpdateConnectedPeerCount(banned, info, -1) IN
              IF ~u.ok THEN Result(r.state, <<>>, <<>>, "peer_count < 0")
              ELSE Result(u.state, <<>>, OnCloseEvents(info), "")
         ELSE IF info.network_connection = None
         THEN Result(r.state, <<>>, <<>>,
                     "Invalid state, closing connection with network connection not set")
         ELSE IF info.network_connection.inbound /\ r.state.inbound_count = 0
         THEN Result(r.state, <<>>, <<>>, "inbound_count < 0")
         ELSE Result(r.state, <<>>, OnCloseEvents(info), "")

\* on_connect_error
OnConnectError(st, peer_address) ==
    IF peer_address \notin DOMAIN st.connections_by_peer_address
    THEN Result(st, <<>>, <<>>, "PeerAddress not stored")
    ELSE LET connection_id == st.connections_by_peer_address[peer_address]
             info == GetConnection(st, connection_id)
         IN IF info.state # "Connecting"
            THEN Result(st, <<>>, <<>>, "ConnectionInfo state not Connecting")
            ELSE IF st.connecting_count = 0
            THEN Result(st, <<>>, <<>>, "connecting_count < 0")
            ELSE Result([PoolRemove(st, connection_id).state
                            EXCEPT !.connecting_count = @ - 1],
                        <<>>, <<Event("ConnectError", NoSocket, FALSE)>>, "")

\* ------------------------------------------------- the network around it
Nodes == {"A", "B"}
NodeId(n) == IF n = "A" THEN 1 ELSE 2
NodeOf(peer_id) == IF peer_id = 1 THEN "A" ELSE "B"
NodeIds == {1, 2}

\* The peers of the model by peer id: the two nodes, and remote peers that
\* share an IP address (3 and 4), a subnet (3, 4 and 5), speak no websocket
\* protocol (6), are banned in the address book (7) or have IPv6 addresses
\* in one /64 (8 and 9).
AddressOf(peer_id) ==
    CASE peer_id = 1 -> PeerAddress(1, "Ws", NetAddress(8, 1, TRUE))
      [] peer_id = 2 -> PeerAddress(2, "Ws", NetAddress(9, 1, TRUE))
      [] peer_id = 3 -> PeerAddress(3, "Ws", NetAddress(1, 1, TRUE))
      [] peer_id = 4 -> PeerAddress(4, "Wss", NetAddress(1, 1, TRUE))
      [] peer_id = 5 -> PeerAddress(5, "Ws", NetAddress(1, 2, TRUE))
      [] peer_id = 6 -> PeerAddress(6, "Dumb", NetAddress(2, 1, FALSE))
      [] peer_id = 7 -> PeerAddress(7, "Ws", NetAddress(2, 2, TRUE))
      [] peer_id = 8 -> PeerAddress(8, "Ws", NetAddress6(5, 1))
      [] OTHER -> PeerAddress(9, "Ws", NetAddress6(5, 2))

PeerIds == 1..9

\* A socket at a node: its direction and the peer at the other end.  Each is
\* opened at most once.
Sockets == {"in", "out"} \X PeerIds

SocketNew == [stage |-> "none", closing |-> "", id |-> -1]

HistNew == [locked |-> {}, exchange |-> FALSE, outbound |-> FALSE]

PoolInit ==
    /\ pool = [n \in Nodes |-> PoolStateNew]
    /\ net = [n \in Nodes |-> [s \in Sockets |-> SocketNew]]
    /\ evlog = [n \in Nodes |-> [s \in Sockets |-> <<>>]]
    /\ hist = [n \in Nodes |-> HistNew]
    /\ fault = [n \in Nodes |-> ""]

\* ================================================ utils::observer::Notifier
\* Registrations made on one notifier.
MaxRegistered == 3

\* Notifier::new
NotifierNew == [listeners |-> <<>>, next_handle |-> 0]

\* register: [notifier, handle]
Register(nf, listener) ==
    [notifier |-> [listeners |-> Append(nf.listeners, <<nf.next_handle, listener>>),
                   next_handle |-> nf.next_handle + 1],
     handle |-> nf.next_handle]

\* Vec::remove(i): the later elements move down by one.
VecRemove(v, i) == [j \in 1..(Len(v) - 1) |-> IF j < i THEN v[j] ELSE v[j + 1]]

\* Vec::swap_remove(i): the last element takes the place of the removed one.
VecSwapRemove(v, i) ==
    [j \in 1..(Len(v) - 1) |-> IF j = i THEN v[Len(v)] ELSE v[j]]

\* deregister that removes with swap_remove.
DeregisterSwap(nf, handle) ==
    LET hits == {i \in DOMAIN nf.listeners : nf.listeners[i][1] = handle} IN
    IF hits = {} THEN nf
    ELSE LET i == CHOOSE k \in hits : \A m \in hits : k <= m
         IN [nf EXCEPT !.listeners = VecSwapRemove(@, i)]

\* deregister: removes the first listener stored with the handle.
Deregister(nf, handle) ==
    LET hits == {i \in DOMAIN nf.listeners : nf.listeners[i][1] = handle} IN
    IF hits = {} THEN nf
    ELSE LET i == CHOOSE k \in hits : \A m \in hits : k <= m
         IN [nf EXCEPT !.listeners = VecRemove(@, i)]

\* notify: the invocations on_event(event) it makes, in order.
NotifyAll(nf, event) ==
    [i \in DOMAIN nf.listeners |-> [listener |-> nf.listeners[i][2], event |-> event]]

NotifierLogNew == [regs |-> {}, issued |-> {}, clock |-> 0, calls |-> <<>>, handle |-> -1]

\* ---------------------------------------------------- Network: time offset
\* Established peers of one network.
MaxPeers == 3

\* The time offsets peers report.
TimeOffsets == {-4, -1, 0, 2, 4}

RECURSIVE SortInts(_)
\* offsets.sort_by(i64::cmp)
SortInts(v) ==
    IF v = <<>> THEN <<>>
    ELSE LET i == CHOOSE k \in DOMAIN v : \A m \in DOMAIN v : v[k] <= v[m]
         IN <<v[i]>> \o SortInts(VecRemove(v, i))

\* i64 division: the quotient is truncated towards zero.
DivTrunc(a, b) == IF a >= 0 THEN a \div b ELSE -((-a) \div b)

\* update_time_offset: the offset computed from the time offsets of the
\* Established peers.
UpdateTimeOffset(peer_offsets) ==
    LET offsets == SortInts(<<0>> \o peer_offsets)
        len == Len(offsets)
    IN IF len % 2 = 0
       THEN DivTrunc(offsets[(len \div 2) - 1 + 1] + offsets[(len \div 2) - 1 + 1], 2)
       ELSE offsets[((len - 1) \div 2) + 1]

\* --------------------------------------------------------------- SparseVec
\* Inserts made into one SparseVec.
MaxInserts == 4

SparseLogNew == [held |-> <<>>, inserts |-> 0, call |-> "", index |-> -1, value |-> None]

\* ================================================================ Network
CONNECTING_COUNT_MAX == 2
CONNECT_BACKOFF_INITIAL == 2
CONNECT_BACKOFF_MAX == 600

\* Network::new: the fields of the struct; check is what the last
\* check_peer_count did, recycling what the last housekeeping asked of the
\* scorer, lock who holds the pool's change_lock and how far the on_handshake
\* that holds it has come.
NetworkNew ==
    [auto_connect |-> FALSE,
     backed_off |-> FALSE,
     backoff |-> CONNECT_BACKOFF_INITIAL,
     timers |-> {},
     check |-> None,
     recycling |-> None,
     lock |-> [holder |-> NoThread, handshake |-> None]]

UtilInit ==
    /\ notifier = NotifierNew
    /\ nlog = NotifierLogNew
    /\ sparse = SparseVecNew
    /\ slog = SparseLogNew
    /\ ntime = [peers |-> <<>>, offset |-> 0, notified |-> ""]
    /\ network = NetworkNew

\* ----------------------------------------------------------------- actions
Loc0 ==
    [hash |-> None, chain_info |-> None, prev_info |-> None, txn |-> None,
     cache_txn |-> <<>>, fork_chain |-> <<>>, revert_chain |-> <<>>, ancestor |-> None,
     result |-> "", event |-> None, events |-> <<>>, seen |-> None, block |-> None]

Done(hash, result, events, seen) ==
    [Loc0 EXCEPT !.hash = hash, !.result = result, !.events = events, !.seen = seen]

Alive == phase \in {"init", "loaded"}

\* The blocks the network may hand to a live engine.
Offers == IF Alive THEN Offered(store, state) ELSE {}

Init ==
    /\ store = InitDb
    /\ state = InitState
    /\ push_lock = NoThread
    /\ rw = [writer |-> NoThread, readers |-> {}]
    /\ pc = [t \in Threads |-> "idle"]
    /\ loc = [t \in Threads |-> Loc0]
    /\ phase = "init"
    /\ old = None
    /\ PoolInit
    /\ UtilInit

\* A push_lock that excludes nobody.
CanLockPushAlways(t) == TRUE

\* push_lock.lock() succeeds for t.
CanLockPush(t) == push_lock = NoThread

\* state.write() succeeds for t.
CanWriteState(t) == rw.writer = NoThread /\ rw.readers = {}

\* state.read() succeeds for t.
CanReadState(t) == rw.writer = NoThread

\* push from push_lock.lock() on: under the lock the checks up to the
\* dispatch; a fork is stored and committed here.
Enter(t, block) ==
    /\ CanLockPush(t)
    /\ CanReadState(t)
    /\ push_lock' = t
    /\ LET hash == Hash(block.header)
           c == Classify(store, state, block)
       IN IF c.kind \in {"extend", "rebranch"}
          THEN /\ pc' = [pc EXCEPT ![t] = c.kind]
               /\ loc' = [loc EXCEPT ![t] = [Loc0 EXCEPT !.hash = hash,
                                                         !.chain_info = c.chain_info,
                                                         !.prev_info = c.prev_info]]
               /\ store' = store
          ELSE IF c.kind = "fork"
          THEN /\ pc' = [pc EXCEPT ![t] = "done"]
               /\ loc' = [loc EXCEPT ![t] = Done(hash, "Forked", <<>>, None)]
               /\ store' = ForkTxn(store, hash, c.chain_info)
          ELSE /\ pc' = [pc EXCEPT ![t] = "done"]
               /\ loc' = [loc EXCEPT ![t] = Done(IF c.kind = "Known" THEN hash ELSE None,
                                                  c.kind, <<>>, None)]
               /\ store' = store
    /\ UNCHANGED <<state, rw, phase>>

\* push(block) by thread t when push_lock is free: verification, then Enter.
\* No further block is offered while a push waits for push_lock.
Push(t, block) ==
    /\ UNCHANGED <<pvars, uvars>>
    /\ Alive
    /\ pc[t] = "idle"
    /\ \A u \in Threads : pc[u] # "lock"
    /\ old' = None
    /\ IF ~Verify(block)
       THEN /\ pc' = [pc EXCEPT ![t] = "done"]
            /\ loc' = [loc EXCEPT ![t] = Done(None, "Invalid(InvalidBlock)", <<>>, None)]
            /\ UNCHANGED <<store, state, push_lock, rw, phase>>
       ELSE Enter(t, block)

\* push by thread u of the very block another thread has just taken push_lock
\* for: u verifies it and blocks in push_lock.lock().
PushSame(u) ==
    /\ UNCHANGED <<pvars, uvars>>
    /\ Alive
    /\ pc[u] = "idle"
    /\ \E t \in Threads \ {u} :
           /\ pc[t] \in {"extend", "rebranch"}
           /\ Verify(loc[t].chain_info.head)
           /\ loc' = [loc EXCEPT ![u] = [Loc0 EXCEPT !.hash = loc[t].hash,
                                                     !.block = loc[t].chain_info.head]]
    /\ pc' = [pc EXCEPT ![u] = "lock"]
    /\ UNCHANGED <<store, state, push_lock, rw, phase, old>>

\* The blocked push gets push_lock.
LockAcquired(u) ==
    /\ UNCHANGED <<pvars, uvars>>
    /\ pc[u] = "lock"
    /\ Enter(u, loc[u].block)
    /\ UNCHANGED old

\* extend: replay check, commit_block, writes into the transaction.
ExtendCheck(t) ==
    /\ UNCHANGED <<pvars, uvars>>
    /\ pc[t] = "extend"
    /\ CanReadState(t)
    /\ LET r == ExtendPrepare(store, state, loc[t].hash, loc[t].chain_info, loc[t].prev_info) IN
       IF r.ok
       THEN /\ pc' = [pc EXCEPT ![t] = "ext_write"]
            /\ loc' = [loc EXCEPT ![t].txn = r.txn, ![t].chain_info = r.chain_info]
            /\ store' = store
       ELSE /\ pc' = [pc EXCEPT ![t] = "done"]
            /\ loc' = [loc EXCEPT ![t] = Done(None, r.result, <<>>, None)]
            /\ store' = TxnAbort(store, r.txn)
    /\ UNCHANGED <<state, push_lock, rw, phase, old>>

\* extend: take the write lock and publish cache, main_chain and head_hash.
ExtendPublish(t) ==
    /\ UNCHANGED <<pvars, uvars>>
    /\ pc[t] = "ext_write"
    /\ CanWriteState(t)
    /\ rw' = [rw EXCEPT !.writer = t]
    /\ state' = ExtendState(state, loc[t].hash, loc[t].chain_info)
    /\ pc' = [pc EXCEPT ![t] = "ext_commit"]
    /\ UNCHANGED <<store, push_lock, loc, phase, old>>

\* extend: txn.commit(), give up the write lock, take a read lock and build
\* the event.
ExtendCommit(t) ==
    /\ UNCHANGED <<pvars, uvars>>
    /\ pc[t] = "ext_commit"
    /\ store' = loc[t].txn
    /\ rw' = [writer |-> NoThread, readers |-> rw.readers \cup {t}]
    /\ loc' = [loc EXCEPT ![t].event = ExtendedEvent(state), ![t].txn = None]
    /\ pc' = [pc EXCEPT ![t] = "notify"]
    /\ UNCHANGED <<state, push_lock, phase, old>>

\* rebranch: find the ancestor, revert to it and apply the fork inside the
\* write transaction.
RebranchCheck(t) ==
    /\ UNCHANGED <<pvars, uvars>>
    /\ pc[t] = "rebranch"
    /\ CanReadState(t)
    /\ LET r == RebranchPrepare(store, state, loc[t].hash, loc[t].chain_info) IN
       IF r.ok
       THEN /\ pc' = [pc EXCEPT ![t] = "reb_write"]
            /\ loc' = [loc EXCEPT ![t].txn = r.txn, ![t].cache_txn = r.cache_txn,
                                  ![t].fork_chain = r.fork_chain,
                                  ![t].revert_chain = r.revert_chain,
                                  ![t].ancestor = r.ancestor]
            /\ store' = store
       ELSE /\ pc' = [pc EXCEPT ![t] = "done"]
            /\ loc' = [loc EXCEPT ![t] = Done(None, r.result, <<>>, None)]
            /\ store' = TxnAbort(store, r.txn)
    /\ UNCHANGED <<state, push_lock, rw, phase, old>>

\* rebranch: take the write lock, rewrite the chain infos and commit.
RebranchCommit(t) ==
    /\ UNCHANGED <<pvars, uvars>>
    /\ pc[t] = "reb_write"
    /\ CanWriteState(t)
    /\ rw' = [rw EXCEPT !.writer = t]
    /\ store' = RebranchTxn(loc[t].txn, loc[t].revert_chain, loc[t].ancestor, loc[t].fork_chain)
    /\ loc' = [loc EXCEPT ![t].txn = None]
    /\ pc' = [pc EXCEPT ![t] = "reb_commit"]
    /\ UNCHANGED <<state, push_lock, phase, old>>

\* rebranch: publish cache, main_chain and head_hash, give up the write lock
\* and build the event.
RebranchPublish(t) ==
    /\ UNCHANGED <<pvars, uvars>>
    /\ pc[t] = "reb_commit"
    /\ state' = RebranchState(loc[t].fork_chain, loc[t].cache_txn)
    /\ rw' = [rw EXCEPT !.writer = NoThread]
    /\ loc' = [loc EXCEPT ![t].event = RebranchedEvent(loc[t].revert_chain, loc[t].fork_chain)]
    /\ pc' = [pc EXCEPT ![t] = "notify"]
    /\ UNCHANGED <<store, push_lock, phase, old>>

\* What a listener sees when it calls back into the engine.
Observed(db, st) ==
    [head_hash |-> st.head_hash,
     height |-> st.main_chain.head.header.height,
     stored_head |-> GetChainInfo(db, st.head_hash, FALSE)]

\* notifier.read().notify(event): the listener runs on the pushing thread and
\* reads head_hash() and height().
Notify(t) ==
    /\ UNCHANGED <<pvars, uvars>>
    /\ pc[t] = "notify"
    /\ CanReadState(t)
    /\ loc' = [loc EXCEPT ![t].events = Append(@, loc[t].event),
                          ![t].seen = Observed(store, state)]
    /\ pc' = [pc EXCEPT ![t] = "callback"]
    /\ UNCHANGED <<store, state, push_lock, rw, phase, old>>

ResultOf(event) == IF event.type = "Extended" THEN "Extended" ELSE "Rebranched"

\* The listener returns; push is about to return its result.
ListenerReturn(t) ==
    /\ UNCHANGED <<pvars, uvars>>
    /\ pc[t] = "callback"
    /\ pc' = [pc EXCEPT ![t] = "done"]
    /\ loc' = [loc EXCEPT ![t] = Done(loc[t].hash, ResultOf(loc[t].event),
                                      loc[t].events, loc[t].seen)]
    /\ UNCHANGED <<store, state, push_lock, rw, phase, old>>

\* The listener pushes a further block: the nested push verifies it and
\* arrives at push_lock.lock().
ListenerPush(t) ==
    /\ UNCHANGED <<pvars, uvars>>
    /\ pc[t] = "callback"
    /\ pc' = [pc EXCEPT ![t] = "nested_lock"]
    /\ UNCHANGED <<store, state, push_lock, rw, loc, phase, old>>

\* push returns: the guards held by the call are dropped.
Return(t) ==
    /\ UNCHANGED <<pvars, uvars>>
    /\ pc[t] = "done"
    /\ pc' = [pc EXCEPT ![t] = "idle"]
    /\ loc' = [loc EXCEPT ![t] = Loc0]
    /\ push_lock' = IF push_lock = t THEN NoThread ELSE push_lock
    /\ rw' = [rw EXCEPT !.readers = @ \ {t}]
    /\ UNCHANGED <<store, state, phase, old>>

\* The engine object is dropped (the process stops between pushes).
Drop ==
    /\ UNCHANGED <<pvars, uvars>>
    /\ phase = "init"
    /\ \A t \in Threads : pc[t] = "idle"
    /\ phase' = "dropped"
    /\ old' = [head_hash |-> state.head_hash, height |-> state.main_chain.head.header.height]
    /\ state' = None
    /\ UNCHANGED <<store, push_lock, rw, pc, loc>>

\* head_hash and height as they were when the push of thread t began.
PrePush(t) ==
    IF pc[t] = "ext_commit"
    THEN [head_hash |-> loc[t].chain_info.head.header.prev_hash,
          height |-> loc[t].chain_info.head.header.height - 1]
    ELSE [head_hash |-> state.head_hash, height |-> state.main_chain.head.header.height]

\* The process stops while thread t is inside extend or rebranch and has not
\* yet committed its write transaction: the transaction, the engine object
\* and every thread are gone, the store is what was committed before.
Crash(t) ==
    /\ UNCHANGED <<pvars, uvars>>
    /\ Alive
    /\ pc[t] \in {"extend", "ext_write", "ext_commit", "rebranch", "reb_write"}
    /\ phase' = "crashed"
    /\ old' = PrePush(t)
    /\ state' = None
    /\ pc' = [u \in Threads |-> "idle"]
    /\ loc' = [u \in Threads |-> Loc0]
    /\ push_lock' = NoThread
    /\ rw' = [writer |-> NoThread, readers |-> {}]
    /\ UNCHANGED store

\* Blockchain::new over the same store: the store has a head, so load runs.
New ==
    /\ UNCHANGED <<pvars, uvars>>
    /\ phase \in {"dropped", "crashed"}
    /\ store.head # None
    /\ LET r == Load(store) IN
       /\ state' = r.state
       /\ phase' = IF phase = "dropped"
                   THEN (IF r.ok THEN "loaded" ELSE "load_failed")
                   ELSE (IF r.ok THEN "recovered" ELSE "recovery_failed")
    /\ UNCHANGED <<store, push_lock, rw, pc, loc, old>>

Next ==
    \/ \E t \in Threads : \E block \in Offers : Push(t, block)
    \/ \E t \in Threads : PushSame(t)
    \/ \E t \in Threads : LockAcquired(t)
    \/ \E t \in Threads : ExtendCheck(t)
    \/ \E t \in Threads : ExtendPublish(t)
    \/ \E t \in Threads : ExtendCommit(t)
    \/ \E t \in Threads : RebranchCheck(t)
    \/ \E t \in Threads : RebranchCommit(t)
    \/ \E t \in Threads : RebranchPublish(t)
    \/ \E t \in Threads : Notify(t)
    \/ \E t \in Threads : ListenerReturn(t)
    \/ \E t \in Threads : ListenerPush(t)
    \/ \E t \in Threads : Return(t)
    \/ \E t \in Threads : Crash(t)
    \/ Drop
    \/ New

Spec == Init /\ [][Next]_vars

\* One thread that pushes well-formed successors of stored blocks, on the
\* head and off it, into an engine that is never dropped.
ChainOffers ==
    IF NumStored(store) < MaxChain THEN WellFormed(store, state) ELSE {}

ChainNext ==
    \/ \E block \in ChainOffers : Push("t1", block)
    \/ ExtendCheck("t1")
    \/ ExtendPublish("t1")
    \/ ExtendCommit("t1")
    \/ RebranchCheck("t1")
    \/ RebranchCommit("t1")
    \/ RebranchPublish("t1")
    \/ Notify("t1")
    \/ ListenerReturn("t1")
    \/ Return("t1")

ChainSpec == Init /\ [][ChainNext]_vars

\* The blockchain of ChainSpec with restarts: the engine is dropped between
\* pushes and constructed again from the store (Blockchain::new -> load).
ReloadNext ==
    ChainNext \/ Drop \/ New

ReloadSpec == Init /\ [][ReloadNext]_vars

\* ================================================ ConnectionPool: actions
\* Sockets opened so far at node n.
Opened(n) == Cardinality({s \in Sockets : net[n][s].stage # "none"})

\* Stages in which the pool holds the socket and its close listener waits.
Live == {"open", "agent", "versioned", "handshaken"}

\* The same socket seen from the node at its other end.
OtherEnd(n, s) == <<IF s[1] = "in" THEN "out" ELSE "in", NodeId(n)>>

RECURSIVE RequestCloses(_, _)
\* network_connection.close(ty): the first request on a socket decides the
\* close type its close listener will report.
RequestCloses(sockets, closes) ==
    IF closes = <<>> THEN sockets
    ELSE LET c == Head(closes)
             s1 == IF sockets[c.socket].closing = ""
                   THEN [sockets EXCEPT ![c.socket].closing = c.ty] ELSE sockets
         IN RequestCloses(s1, Tail(closes))

RECURSIVE Heard(_, _)
\* The listener's record per socket.
Heard(log, events) ==
    IF events = <<>> THEN log
    ELSE LET e == Head(events)
             l1 == IF e.socket = NoSocket THEN log
                   ELSE [log EXCEPT ![e.socket] = Append(@, e.type)]
         IN Heard(l1, Tail(events))

\* What a handler of node n that ran with result r leaves behind in the pool
\* and on the sockets; sockets is net[n] as the network side of the step
\* leaves it.
Applied(n, r, sockets, h) ==
    /\ pool' = [pool EXCEPT ![n] = r.state]
    /\ net' = [net EXCEPT ![n] = RequestCloses(sockets, r.closes)]
    /\ evlog' = [evlog EXCEPT ![n] = Heard(@, r.events)]
    /\ hist' = [hist EXCEPT ![n] =
                   [h EXCEPT !.locked = @ \cup {r.events[i].type :
                                 i \in {j \in DOMAIN r.events : r.events[j].locked}}]]
    /\ fault' = [fault EXCEPT ![n] = r.fault]

\* A handler of node n has run with result r.
Handled(n, r, sockets, h) ==
    /\ Applied(n, r, sockets, h)
    /\ UNCHANGED <<bvars, uvars>>

SetAllowInboundConnections(n, b) ==
    /\ fault[n] = ""
    /\ pool[n].allow_inbound_connections # b
    /\ Handled(n, Result([pool[n] EXCEPT !.allow_inbound_connections = b], <<>>, <<>>, ""),
               net[n], hist[n])

SetAllowInboundExchange(n, b) ==
    /\ fault[n] = ""
    /\ pool[n].allow_inbound_exchange # b
    /\ Handled(n, Result([pool[n] EXCEPT !.allow_inbound_exchange = b], <<>>, <<>>, ""),
               net[n], [hist[n] EXCEPT !.exchange = TRUE])

\* connect_outbound(AddressOf(p)); an accepted request starts the connector.
\* A peer is dialled at most once with success.
DoConnectOutbound(n, p) ==
    /\ fault[n] = ""
    /\ p # NodeId(n)
    /\ LET r == ConnectOutbound(pool[n], AddressOf(p)) IN
       /\ r.ok => (net[n][<<"out", p>>].stage = "none" /\ Opened(n) < MaxSockets)
       /\ Handled(n, Result(r.state, <<>>, <<>>, ""),
                  IF r.ok THEN [net[n] EXCEPT ![<<"out", p>>].stage = "dialing"] ELSE net[n],
                  [hist[n] EXCEPT !.outbound = @ \/ r.ok])

\* The connector reports the outbound connection to p.
OutboundEstablished(n, p) ==
    /\ fault[n] = ""
    /\ net[n][<<"out", p>>].stage = "dialing"
    /\ LET s == <<"out", p>>
           r == OnConnection(pool[n], NetworkConnection(s, FALSE, AddressOf(p).net_address,
                                                        AddressOf(p)))
       IN Handled(n, r,
                  [net[n] EXCEPT ![s] = [stage |-> IF r.connection_id = -1 THEN "closed"
                                                   ELSE IF r.agent THEN "agent" ELSE "open",
                                         closing |-> "", id |-> r.connection_id]],
                  hist[n])

\* The connector reports that the connection to p failed.
DialFails(n, p) ==
    /\ fault[n] = ""
    /\ net[n][<<"out", p>>].stage = "dialing"
    /\ Handled(n, OnConnectError(pool[n], AddressOf(p)),
               [net[n] EXCEPT ![<<"out", p>>].stage = "closed"], hist[n])

\* An inbound socket from p arrives; from the other node only once that node
\* has dialled.
InboundArrives(n, p) ==
    /\ fault[n] = ""
    /\ p # NodeId(n)
    /\ net[n][<<"in", p>>].stage = "none"
    /\ Opened(n) < MaxSockets
    /\ p \in NodeIds => net[NodeOf(p)][<<"out", NodeId(n)>>].stage \in {"dialing"} \cup Live
    /\ LET s == <<"in", p>>
           r == OnConnection(pool[n], NetworkConnection(s, TRUE, AddressOf(p).net_address, None))
       IN Handled(n, r,
                  [net[n] EXCEPT ![s] = [stage |-> IF r.agent THEN "agent" ELSE "open",
                                         closing |-> "", id |-> r.connection_id]],
                  hist[n])

\* The agent of socket s has the peer's version message; the other node has
\* sent it once its own agent exists.
Version(n, s) ==
    /\ fault[n] = ""
    /\ net[n][s].stage = "agent"
    /\ net[n][s].closing = ""
    /\ s[2] \in NodeIds =>
          net[NodeOf(s[2])][OtherEnd(n, s)].stage \in {"agent", "versioned", "handshaken"}
    /\ Handled(n, CheckHandshake(pool[n], net[n][s].id,
                                 Peer(AddressOf(s[2]), AddressOf(s[2]).net_address)),
               [net[n] EXCEPT ![s].stage = "versioned"], hist[n])

\* The agent of socket s has completed the handshake.
Handshake(n, s) ==
    /\ fault[n] = ""
    /\ net[n][s].stage = "versioned"
    /\ net[n][s].closing = ""
    /\ s[2] \in NodeIds =>
          net[NodeOf(s[2])][OtherEnd(n, s)].stage \in {"versioned", "handshaken"}
    /\ Handled(n, OnHandshake(pool[n], NodeId(n), net[n][s].id,
                              Peer(AddressOf(s[2]), AddressOf(s[2]).net_address)),
               [net[n] EXCEPT ![s].stage = "handshaken"], hist[n])

\* The close listener of socket s fires with the requested close type.
CloseDelivered(n, s) ==
    /\ fault[n] = ""
    /\ net[n][s].stage \in Live
    /\ net[n][s].closing # ""
    /\ Handled(n, OnClose(pool[n], net[n][s].id, net[n][s].closing),
               [net[n] EXCEPT ![s].stage = "closed"], hist[n])

\* The remote peer closes socket s.
RemoteClose(n, s) ==
    /\ fault[n] = ""
    /\ s[2] \notin NodeIds
    /\ net[n][s].stage \in Live
    /\ net[n][s].closing = ""
    /\ Handled(n, Result(pool[n], <<CloseRequest(s, "ClosedByRemote")>>, <<>>, ""),
               net[n], hist[n])

\* The other node has closed its end of socket s.
PeerNodeClosed(n, s) ==
    /\ fault[n] = ""
    /\ s[2] \in NodeIds
    /\ net[n][s].stage \in Live
    /\ net[n][s].closing = ""
    /\ \/ net[NodeOf(s[2])][OtherEnd(n, s)].closing # ""
       \/ net[NodeOf(s[2])][OtherEnd(n, s)].stage = "closed"
    /\ Handled(n, Result(pool[n], <<CloseRequest(s, "ClosedByRemote")>>, <<>>, ""),
               net[n], hist[n])

RECURSIVE SetToSeq(_)
SetToSeq(S) == IF S = {} THEN <<>>
               ELSE LET x == CHOOSE y \in S : TRUE IN <<x>> \o SetToSeq(S \ {x})

\* disconnect()
DoDisconnect(n) ==
    /\ fault[n] = ""
    /\ Disconnect(pool[n]) # {}
    /\ \E c \in Disconnect(pool[n]) : net[n][c.socket].closing = ""
    /\ Handled(n, Result(pool[n], SetToSeq(Disconnect(pool[n])), <<>>, ""),
               net[n], hist[n])

\* One node, remote peers that dial in and are dialled.
PoolNext ==
    \/ \E b \in BOOLEAN : SetAllowInboundConnections("A", b)
    \/ \E b \in BOOLEAN : SetAllowInboundExchange("A", b)
    \/ \E p \in {3, 5, 6, 7} : DoConnectOutbound("A", p)
    \/ \E p \in {3, 5} : OutboundEstablished("A", p)
    \/ \E p \in {3, 5} : DialFails("A", p)
    \/ \E p \in {3, 4, 5} : InboundArrives("A", p)
    \/ \E s \in Sockets : Version("A", s)
    \/ \E s \in Sockets : Handshake("A", s)
    \/ \E s \in Sockets : CloseDelivered("A", s)
    \/ \E s \in Sockets : RemoteClose("A", s)
    \/ DoDisconnect("A")

PoolSpec == Init /\ [][PoolNext]_vars

\* Two nodes that accept inbound connections and dial each other.
RaceNext ==
    \/ \E n \in Nodes : SetAllowInboundConnections(n, TRUE)
    \/ \E n \in Nodes : DoConnectOutbound(n, NodeId(CHOOSE m \in Nodes : m # n))
    \/ \E n \in Nodes : OutboundEstablished(n, NodeId(CHOOSE m \in Nodes : m # n))
    \/ \E n \in Nodes : InboundArrives(n, NodeId(CHOOSE m \in Nodes : m # n))
    \/ \E n \in Nodes : \E s \in Sockets : Version(n, s)
    \/ \E n \in Nodes : \E s \in Sockets : Handshake(n, s)
    \/ \E n \in Nodes : \E s \in Sockets : CloseDelivered(n, s)
    \/ \E n \in Nodes : \E s \in Sockets : PeerNodeClosed(n, s)

RaceSpec == Init /\ [][RaceNext]_vars

\* The agent of socket s has completed the handshake, and the peer it hands
\* to on_handshake carries a net address of its own that is not the one of
\* the socket.
HandshakeReporting(n, s, net_address) ==
    /\ fault[n] = ""
    /\ net[n][s].stage = "versioned"
    /\ net[n][s].closing = ""
    /\ s[2] \notin NodeIds
    /\ net_address # AddressOf(s[2]).net_address
    /\ Handled(n, OnHandshake(pool[n], NodeId(n), net[n][s].id,
                              Peer(AddressOf(s[2]), net_address)),
               [net[n] EXCEPT ![s].stage = "handshaken"], hist[n])

\* One node whose peers may report a net address of their own.
ReportNext ==
    \/ PoolNext
    \/ \E s \in Sockets : HandshakeReporting("A", s, NetAddress(3, 1, TRUE))

ReportSpec == Init /\ [][ReportNext]_vars

\* The agent of socket s closes the connection with a banning close type.
BanningClose(n, s) ==
    /\ fault[n] = ""
    /\ net[n][s].stage \in Live
    /\ net[n][s].closing = ""
    /\ Handled(n, Result(pool[n], <<CloseRequest(s, "ReceivedInvalidBlock")>>, <<>>, ""),
               net[n], hist[n])

\* One node whose peers misbehave: IPv4 peers of one address and IPv6 peers
\* of one /64.
BanNext ==
    \/ SetAllowInboundConnections("A", TRUE)
    \/ \E p \in {3} : DoConnectOutbound("A", p)
    \/ \E p \in {3} : OutboundEstablished("A", p)
    \/ \E p \in {3, 4, 8, 9} : InboundArrives("A", p)
    \/ \E s \in Sockets : Version("A", s)
    \/ \E s \in Sockets : Handshake("A", s)
    \/ \E s \in Sockets : CloseDelivered("A", s)
    \/ \E s \in Sockets : RemoteClose("A", s)
    \/ \E s \in Sockets : BanningClose("A", s)

BanSpec == Init /\ [][BanNext]_vars

\* ==================================================== Network: connecting
\* Consecutive exhaustions followed.
MaxChecks == 4

\* No address (Option::None of pick_address).
NoPeer == 0

\* Timers::reset_delay: one delay per key, the new one replaces the old one.
ResetDelay(timers, timer, delay) ==
    {x \in timers : x[1] # timer} \cup {<<timer, delay>>}

\* How many check_peer_count calls in a row found no address.
Exhaustions(nw) == IF nw.check = None THEN 0 ELSE nw.check.exhaustions

\* check_peer_count on the Network nw over the pool state st. ready stands
\* for addresses.seeded() && !scorer.is_good_peer_set(), pick for
\* scorer.pick_address() (a peer or NoPeer), suitable for the good-peer test of
\* the picked address. The result names the Network afterwards, whether
\* set_allow_inbound_connections(true) is called and the peer connect_outbound
\* is called with.
CheckPeerCount(nw, st, ready, pick, suitable) ==
    IF nw.auto_connect /\ ready /\ st.connecting_count < CONNECTING_COUNT_MAX
    THEN IF pick = NoPeer \/ ~suitable
         THEN [network |->
                   IF ~nw.backed_off
                   THEN [nw EXCEPT !.backed_off = TRUE,
                                   !.timers = ResetDelay(@, "PeerCountCheck", nw.backoff),
                                   !.check = [exhaustions |-> Exhaustions(nw) + 1,
                                              scheduled |-> {nw.backoff}]]
                   ELSE [nw EXCEPT !.check = [exhaustions |-> Exhaustions(nw) + 1,
                                              scheduled |-> {}]],
               allow |-> Count(st) = 0,
               connect |-> NoPeer]
         ELSE [network |-> [nw EXCEPT !.backoff = CONNECT_BACKOFF_INITIAL,
                                      !.check = [exhaustions |-> 0, scheduled |-> {}]],
               allow |-> FALSE,
               connect |-> pick]
    ELSE [network |-> [nw EXCEPT !.backoff = CONNECT_BACKOFF_INITIAL, !.check = None],
          allow |-> FALSE,
          connect |-> NoPeer]

\* check_peer_count runs on node n; nw is the Network as its caller left it.
CheckPeerCountRuns(n, nw, ready, pick, suitable) ==
    /\ fault[n] = ""
    /\ Exhaustions(nw) < MaxChecks
    /\ LET c == CheckPeerCount(nw, pool[n], ready, pick, suitable)
           st == IF c.allow THEN [pool[n] EXCEPT !.allow_inbound_connections = TRUE]
                 ELSE pool[n]
           r == IF c.connect = NoPeer THEN [ok |-> FALSE, state |-> st]
                ELSE ConnectOutbound(st, AddressOf(c.connect))
       IN /\ r.ok => (net[n][<<"out", c.connect>>].stage = "none" /\ Opened(n) < MaxSockets)
          /\ network' = c.network
          /\ Applied(n, Result(r.state, <<>>, <<>>, ""),
                     IF r.ok THEN [net[n] EXCEPT ![<<"out", c.connect>>].stage = "dialing"]
                     ELSE net[n],
                     [hist[n] EXCEPT !.outbound = @ \/ r.ok])
    /\ UNCHANGED <<bvars, notifier, nlog, sparse, slog, ntime>>

Picks == {NoPeer, 3, 5}

\* Network::connect: auto-connect on, the housekeeping interval set, then the
\* first check_peer_count.
Connect(n, ready, pick, suitable) ==
    /\ ~network.auto_connect
    /\ CheckPeerCountRuns(n, [network EXCEPT !.auto_connect = TRUE,
                                             !.timers = @ \cup {<<"Housekeeping", 0>>}],
                          ready, pick, suitable)

\* The PeerCountCheck delay set by an exhausted check_peer_count elapses.
PeerCountCheckFires(n, ready, pick, suitable) ==
    /\ \E x \in network.timers : x[1] = "PeerCountCheck"
    /\ CheckPeerCountRuns(n, [network EXCEPT !.timers = {x \in @ : x[1] # "PeerCountCheck"}],
                          ready, pick, suitable)

\* The PeersChanged or ConnectError delay elapses (on_peers_changed,
\* on_connect_error): check_peer_count after CONNECT_THROTTLE.
ThrottledCheck(n, ready, pick, suitable) ==
    /\ network.auto_connect
    /\ CheckPeerCountRuns(n, network, ready, pick, suitable)

ConnectNext ==
    \/ \E ready, suitable \in BOOLEAN : \E pick \in Picks :
           Connect("A", ready, pick, suitable)
    \/ \E ready, suitable \in BOOLEAN : \E pick \in Picks :
           PeerCountCheckFires("A", ready, pick, suitable)
    \/ \E ready, suitable \in BOOLEAN : \E pick \in Picks :
           ThrottledCheck("A", ready, pick, suitable)
    \/ \E p \in {3, 5} : OutboundEstablished("A", p)
    \/ \E p \in {3, 5} : DialFails("A", p)
    \/ \E s \in Sockets : Version("A", s)
    \/ \E s \in Sockets : Handshake("A", s)
    \/ \E s \in Sockets : CloseDelivered("A", s)
    \/ \E s \in Sockets : RemoteClose("A", s)

ConnectSpec == Init /\ [][ConnectNext]_vars

\* ================================================== Network: housekeeping
NETWORK_PEER_COUNT_MAX == 4000
PEER_COUNT_RECYCLING_ACTIVE == 1000
\* RECYCLING_PERCENTAGE_MIN = 0.01 and RECYCLING_PERCENTAGE_MAX = 0.20, in
\* hundredths.
RECYCLING_PERCENTAGE_MIN == 1
RECYCLING_PERCENTAGE_MAX == 20

\* f32::ceil of the quotient a / b, b > 0 (towards zero for a negative one).
CeilDiv(a, b) == IF a >= 0 THEN (a + b - 1) \div b ELSE -((-a) \div b)

\* f32::ceil(peer_count * percentage_to_recycle), the percentage being the
\* line through RECYCLING_PERCENTAGE_MIN at PEER_COUNT_RECYCLING_ACTIVE and
\* RECYCLING_PERCENTAGE_MAX at PEER_COUNT_MAX.
RecycleCeil(peer_count) ==
    CeilDiv(peer_count * ((peer_count - PEER_COUNT_RECYCLING_ACTIVE)
                              * (RECYCLING_PERCENTAGE_MAX - RECYCLING_PERCENTAGE_MIN)
                          + RECYCLING_PERCENTAGE_MIN
                              * (NETWORK_PEER_COUNT_MAX - PEER_COUNT_RECYCLING_ACTIVE)),
            100 * (NETWORK_PEER_COUNT_MAX - PEER_COUNT_RECYCLING_ACTIVE))

\* `x as u32` of the f32 x: the value itself when it is not negative; for a
\* negative one the cast saturates to 0 or, in builds where it is undefined,
\* may also come out as 2^32 + x (wrapped, kept as x).
AsU32(x) ==
    IF x >= 0 THEN {[count |-> x, wrapped |-> FALSE]}
    ELSE {[count |-> 0, wrapped |-> FALSE], [count |-> x, wrapped |-> TRUE]}

\* The recycle_connections calls housekeeping may make for a pool of
\* peer_count peers: none, or one with the number of connections asked for.
RecycleCalls(peer_count) ==
    IF peer_count < PEER_COUNT_RECYCLING_ACTIVE
    THEN {{c} : c \in AsU32(RecycleCeil(peer_count))}
    ELSE {{}}

\* Pool sizes looked at: the small ones, those around the zero of the
\* percentage line, around PEER_COUNT_RECYCLING_ACTIVE, and up to the maximum.
PeerCounts ==
    (0..20) \cup (835..850) \cup (990..1010) \cup (495..505) \cup {2500} \cup (3995..NETWORK_PEER_COUNT_MAX)

\* The Housekeeping interval elapses on a pool of peer_count peers; low is
\* whether the scorer's lowest connection score is below
\* SCORE_INBOUND_EXCHANGE.
Housekeeping(n, peer_count, low) ==
    /\ fault[n] = ""
    /\ \E asked \in RecycleCalls(peer_count) :
          network' = [network EXCEPT !.recycling = [peer_count |-> peer_count,
                                                    asked |-> asked]]
    /\ Applied(n, Result([pool[n] EXCEPT !.allow_inbound_exchange = low], <<>>, <<>>, ""),
               net[n], [hist[n] EXCEPT !.exchange = TRUE])
    /\ UNCHANGED <<bvars, notifier, nlog, sparse, slog, ntime>>

HousekeepingNext ==
    \E peer_count \in PeerCounts : \E low \in BOOLEAN : Housekeeping("A", peer_count, low)

HousekeepingSpec == Init /\ [][HousekeepingNext]_vars

\* ============================================ Network: recycling request
\* change_lock is free.
LockFree == network.lock.holder = NoThread

\* on_handshake for socket s of node n takes change_lock and runs up to the
\* recycling check of line 714. When the peer count has reached
\* PEER_COUNT_MAX it notifies RecyclingRequest, and the listener registered by
\* Network::new runs on_recycling_request inside this call.
HandshakeBegins(n, s) ==
    /\ LockFree
    /\ fault[n] = ""
    /\ net[n][s].stage = "versioned"
    /\ net[n][s].closing = ""
    /\ LET r == OnHandshake(pool[n], NodeId(n), net[n][s].id,
                            Peer(AddressOf(s[2]), AddressOf(s[2]).net_address))
           notified == \E i \in DOMAIN r.events : r.events[i].type = "RecyclingRequest"
       IN network' = [network EXCEPT !.lock =
                         [holder |-> "on_handshake",
                          handshake |-> [socket |-> s,
                                         at |-> IF notified THEN "listener" ELSE "accepted"]]]
    /\ UNCHANGED <<bvars, pvars, notifier, nlog, sparse, slog, ntime>>

\* The sockets of the Established connections of node n.
EstablishedSockets(n) ==
    {s \in Sockets : /\ net[n][s].stage = "handshaken"
                     /\ net[n][s].closing = ""
                     /\ GetConnection(pool[n], net[n][s].id) # None}

\* recycle_connections(1, ..): the close the scorer asks for, of one of the
\* Established connections if there is one.
Recycled(n) ==
    IF EstablishedSockets(n) = {} THEN {<<>>}
    ELSE {<<CloseRequest(s, "PeerConnectionRecycledInboundExchange")>> :
             s \in EstablishedSockets(n)}

\* on_recycling_request up to its call of set_allow_inbound_exchange: the
\* scorer closes one connection (the close listener runs on_close later), and
\* set_allow_inbound_exchange asks for change_lock.
RecyclingRequested(n) ==
    /\ network.lock.handshake # None
    /\ network.lock.handshake.at = "listener"
    /\ \E closes \in Recycled(n) :
          Applied(n, Result(pool[n], closes, <<>>, ""), net[n], hist[n])
    /\ network' = [network EXCEPT !.lock.handshake.at = "set_allow_inbound_exchange"]
    /\ UNCHANGED <<bvars, notifier, nlog, sparse, slog, ntime>>

Callers == {"listener", "supervisor"}

\* set_allow_inbound_exchange(b): change_lock.lock(), the write, the unlock.
\* Called by the listener inside on_recycling_request, or by the supervisor
\* (housekeeping, disconnect) on a thread of its own.
SetAllowInboundExchangeBy(n, caller, b) ==
    /\ LockFree
    /\ fault[n] = ""
    /\ IF caller = "listener"
       THEN /\ network.lock.handshake # None
            /\ network.lock.handshake.at = "set_allow_inbound_exchange"
            /\ network' = [network EXCEPT !.lock.handshake.at = "accepted"]
       ELSE /\ network.lock.handshake = None
            /\ pool[n].allow_inbound_exchange # b
            /\ UNCHANGED network
    /\ Applied(n, Result([pool[n] EXCEPT !.allow_inbound_exchange = b], <<>>, <<>>, ""),
               net[n], [hist[n] EXCEPT !.exchange = TRUE])
    /\ UNCHANGED <<bvars, notifier, nlog, sparse, slog, ntime>>

\* The rest of on_handshake: the peer is set, counted and announced
\* (PeerJoined, PeersChanged), and change_lock is released on return.
HandshakeEnds(n) ==
    /\ network.lock.holder = "on_handshake"
    /\ network.lock.handshake.at = "accepted"
    /\ LET s == network.lock.handshake.socket IN
       Applied(n, OnHandshake(pool[n], NodeId(n), net[n][s].id,
                              Peer(AddressOf(s[2]), AddressOf(s[2]).net_address)),
               [net[n] EXCEPT ![s].stage = "handshaken"], hist[n])
    /\ network' = [network EXCEPT !.lock = [holder |-> NoThread, handshake |-> None]]
    /\ UNCHANGED <<bvars, notifier, nlog, sparse, slog, ntime>>

\* The sockets of the connections made here.
RecycleSockets == {<<"out", 3>>, <<"out", 5>>, <<"in", 4>>}

\* Every handler of the pool takes change_lock first.
RecycleNext ==
    \/ LockFree /\ SetAllowInboundConnections("A", TRUE)
    \/ \E b \in BOOLEAN : \E caller \in Callers : SetAllowInboundExchangeBy("A", caller, b)
    \/ LockFree /\ \E p \in {3, 5} : DoConnectOutbound("A", p)
    \/ LockFree /\ \E p \in {3, 5} : OutboundEstablished("A", p)
    \/ LockFree /\ \E p \in {4} : InboundArrives("A", p)
    \/ LockFree /\ \E s \in RecycleSockets : Version("A", s)
    \/ \E s \in RecycleSockets : HandshakeBegins("A", s)
    \/ RecyclingRequested("A")
    \/ HandshakeEnds("A")
    \/ LockFree /\ \E s \in RecycleSockets : CloseDelivered("A", s)
    \/ LockFree /\ \E s \in RecycleSockets : RemoteClose("A", s)

\* Threads that can run do run: the listener, the handler that holds the lock
\* and the callers waiting for it.
RecycleSpec ==
    /\ Init
    /\ [][RecycleNext]_vars
    /\ WF_vars(RecyclingRequested("A"))
    /\ WF_vars(HandshakeEnds("A"))
    /\ WF_vars(\E b \in BOOLEAN : SetAllowInboundExchangeBy("A", "listener", b))

\* ======================================================= Notifier: actions
Listeners == {"f", "g"}
Events == {"e1", "e2"}

\* register(listener)
DoRegister(listener) ==
    /\ notifier.next_handle < MaxRegistered
    /\ LET r == Register(notifier, listener) IN
       /\ notifier' = r.notifier
       /\ nlog' = [regs |-> nlog.regs \cup {[handle |-> r.handle, listener |-> listener,
                                             seq |-> nlog.clock]},
                   issued |-> nlog.issued \cup {r.handle},
                   clock |-> nlog.clock + 1,
                   calls |-> <<>>,
                   handle |-> r.handle]
    /\ UNCHANGED <<bvars, pvars, sparse, slog, ntime, network>>

\* deregister(handle)
DoDeregister(handle) ==
    /\ notifier' = Deregister(notifier, handle)
    /\ nlog' = [nlog EXCEPT !.regs = {x \in @ : x.handle # handle},
                            !.calls = <<>>, !.handle = -1]
    /\ UNCHANGED <<bvars, pvars, sparse, slog, ntime, network>>

\* notify(event)
DoNotify(event) ==
    /\ nlog' = [nlog EXCEPT !.calls = NotifyAll(notifier, event), !.handle = -1]
    /\ UNCHANGED <<bvars, pvars, notifier, sparse, slog, ntime, network>>

NotifierNext ==
    \/ \E listener \in Listeners : DoRegister(listener)
    \/ \E handle \in 0..MaxRegistered : DoDeregister(handle)
    \/ \E event \in Events : DoNotify(event)

NotifierSpec == Init /\ [][NotifierNext]_vars

\* ====================================================== SparseVec: actions
Values == {[v |-> 1], [v |-> 2]}

\* insert(value)
SvInsert(value) ==
    /\ slog.inserts < MaxInserts
    /\ LET r == SparseVecInsert(sparse, value) IN
       /\ sparse' = r.vec
       /\ slog' = [held |-> Put(slog.held, r.index, value), inserts |-> slog.inserts + 1,
                   call |-> "insert", index |-> r.index, value |-> value]
    /\ UNCHANGED <<bvars, pvars, notifier, nlog, ntime, network>>

\* remove(index)
SvRemove(index) ==
    /\ LET r == SparseVecRemove(sparse, index) IN
       /\ sparse' = r.vec
       /\ slog' = [slog EXCEPT !.held = Del(@, index), !.call = "remove",
                               !.index = index, !.value = r.value]
    /\ UNCHANGED <<bvars, pvars, notifier, nlog, ntime, network>>

SparseNext ==
    \/ \E value \in Values : SvInsert(value)
    \/ \E index \in 0..MaxInserts : SvRemove(index)

SparseSpec == Init /\ [][SparseNext]_vars

\* ================================================ Network: time offset
\* on_peer_joined: the pool has made a peer with this time offset Established.
PeerJoins(time_offset) ==
    /\ Len(ntime.peers) < MaxPeers
    /\ LET peers == Append(ntime.peers, time_offset) IN
       ntime' = [peers |-> peers, offset |-> UpdateTimeOffset(peers),
                 notified |-> "PeerJoined"]
    /\ UNCHANGED <<bvars, pvars, notifier, nlog, sparse, slog, network>>

\* on_peer_left: the pool has removed the i-th Established peer.
PeerLeaves(i) ==
    /\ i \in DOMAIN ntime.peers
    /\ LET peers == VecRemove(ntime.peers, i) IN
       ntime' = [peers |-> peers, offset |-> UpdateTimeOffset(peers),
                 notified |-> "PeerLeft"]
    /\ UNCHANGED <<bvars, pvars, notifier, nlog, sparse, slog, network>>

TimeNext ==
    \/ \E time_offset \in TimeOffsets : PeerJoins(time_offset)
    \/ \E i \in 1..MaxPeers : PeerLeaves(i)

TimeSpec == Init /\ [][TimeNext]_vars


\* ------------------------------------------------------------ properties
\* No push is between taking push_lock and its result.
Quiescent == \A t \in Threads : pc[t] \in {"idle", "done"}

Finished(t, result) == pc[t] = "done" /\ loc[t].result = result

\* The step is a step of the running process, not its stop.
Survives == phase' # "crashed"

TotalDifficulty(h) == store.chain_db[h].total_difficulty

\* A block that passes every check of push, does not extend the head and
\* whose chain is not harder than the main chain.
NotHarderFork(b) ==
    LET prev_info == GetChainInfo(store, b.header.prev_hash, FALSE)
        nt == GetNextTarget(store, state, b.header.prev_hash)
    IN /\ Verify(b)
       /\ ~IsKnown(store, Hash(b.header))
       /\ prev_info # None
       /\ b.header.prev_hash # state.head_hash
       /\ IsImmediateSuccessorOf(b, prev_info.head)
       /\ nt.ok
       /\ b.header.n_bits = nt.target
       /\ prev_info.total_difficulty + Difficulty(b.header.n_bits)
              <= state.main_chain.total_difficulty

C1_Head ==
    (phase = "init" /\ Quiescent) =>
        /\ state.head_hash \in DOMAIN store.chain_db
        /\ TotalDifficulty(state.head_hash) = state.main_chain.total_difficulty
        /\ \A h \in DOMAIN store.chain_db :
               /\ TotalDifficulty(h) <= state.main_chain.total_difficulty
               /\ store.chain_db[h].head.header.prev_hash # state.head_hash

C1_Step ==
    /\ (phase = "init" /\ phase' = "init" /\ state'.head_hash # state.head_hash)
           => state'.main_chain.total_difficulty > state.main_chain.total_difficulty
    /\ \A t \in Threads :
           (phase = "init" /\ pc[t] = "idle" /\ pc'[t] # "idle") =>
               \A b \in Offers :
                   (NotHarderFork(b) /\ Push(t, b))
                       => /\ Finished(t, "Forked")'
                          /\ state' = state
                          /\ Hash(b.header) \in DOMAIN store'.chain_db
                          /\ ~store'.chain_db[Hash(b.header)].on_main_chain

\* C1: on an engine started by init, whenever no push is in progress the head
\* is a stored tip and no stored block has a greater total difficulty; the
\* head only ever moves to a strictly greater total difficulty, and a valid
\* block off the head whose chain is not harder is stored off the main chain,
\* the push returning Forked with the head where it was.
C1_ForkChoice == []C1_Head /\ [][C1_Step]_vars

\* A fork of the same total difficulty as the main chain was stored and the
\* head stayed.
C1_Witness ==
    \E t \in Threads :
        /\ phase = "init"
        /\ Finished(t, "Forked")
        /\ TotalDifficulty(loc[t].hash) = state.main_chain.total_difficulty
        /\ state.head_hash # loc[t].hash

\* accounts.hash() on the committed store.
AccountsRoot == AccountsHash(store.accounts)

Engine == state # None

\* Some push is between publishing its state and committing its store
\* transaction (extend), or between the commit and publishing (rebranch).
MidPublication == \E t \in Threads : pc[t] \in {"ext_commit", "reb_commit"}

C2_Root ==
    (Engine /\ ~MidPublication) =>
        AccountsRoot = state.main_chain.head.header.accounts_hash

C2_Step ==
    /\ store'.accounts # store.accounts =>
           \E t \in Threads : \/ pc[t] = "ext_commit" /\ pc'[t] = "notify"
                              \/ pc[t] = "reb_write" /\ pc'[t] = "reb_commit"
    /\ \A t \in Threads :
           (pc[t] \in {"notify", "callback"} /\ pc'[t] = "done")
               => loc'[t].result \in {"Extended", "Rebranched"}
    /\ \A t \in Threads :
           (pc[t] \notin {"done", "callback"} /\ pc'[t] = "done")
               => /\ loc'[t].result \notin {"Extended", "Rebranched"}
                  /\ store'.accounts = store.accounts

\* C2: whenever an engine exists and no push is between publishing and
\* committing (so after init, after load and after every Extended or
\* Rebranched push) the accounts root equals the accounts_hash of the main
\* chain head; the root is only changed by the commit step of a push that then
\* returns Extended or Rebranched, and a push ending with any other result
\* leaves it as it was.
C2_AccountsHash == []C2_Root /\ [][C2_Step]_vars

\* A rebranch has returned and the accounts root is the new head's.
C2_Witness ==
    \E t \in Threads :
        /\ Finished(t, "Rebranched")
        /\ AccountsRoot = state.main_chain.head.header.accounts_hash
        /\ AccountsRoot # GenesisBlock.header.accounts_hash

Accepted == {"Extended", "Rebranched", "Forked"}

C3_Stored ==
    \A t \in Threads :
        (pc[t] = "done" /\ loc[t].result \in Accepted) =>
            /\ loc[t].hash \in DOMAIN store.chain_db
            /\ loc[t].hash \in DOMAIN store.block_db

C3_Step ==
    /\ DOMAIN store.chain_db \subseteq DOMAIN store'.chain_db
    /\ \A h \in DOMAIN store.chain_db :
           /\ store'.chain_db[h].head = store.chain_db[h].head
           /\ store'.block_db[h] = store.block_db[h]
    /\ \A t \in Threads :
           (Alive /\ pc[t] = "idle" /\ pc'[t] # "idle") =>
               \A b \in StoredBlocks(store) :
                   Push(t, b)
                       => /\ Finished(t, "Known")'
                          /\ loc'[t].hash = Hash(b.header)
                          /\ loc'[t].events = <<>>
                          /\ store' = store
                          /\ state' = state

C4_RoundtripLoad ==
    /\ phase # "load_failed"
    /\ (phase = "loaded" /\ old # None) =>
           /\ state.head_hash = old.head_hash
           /\ state.main_chain.head.header.height = old.height

TxsOf(block) == {block.body.transactions[i] : i \in 1..Len(block.body.transactions)}

\* The transactions of the head and of the blocks below it, W blocks in all.
RecentTxs ==
    LET below == GetBlocksBackward(store, state.head_hash, TRANSACTION_VALIDITY_WINDOW - 1, TRUE)
    IN TxsOf(state.main_chain.head) \cup UNION {TxsOf(below[i]) : i \in 1..Len(below)}

\* Thread t is in extend with a block that repeats a recent transaction.
Replays(t) ==
    /\ pc[t] = "extend"
    /\ \/ TxsOf(loc[t].chain_info.head) \cap RecentTxs # {}
       \/ TxsOf(loc[t].chain_info.head) \cap CacheTxs(state.transaction_cache) # {}

C5_Extending ==
    \A t \in Threads :
        pc[t] = "extend" =>
            /\ loc[t].chain_info.head.header.prev_hash = state.head_hash
            /\ push_lock = t

C5_Step ==
    \A t \in Threads : Survives =>
        /\ (pc[t] = "idle" /\ pc'[t] = "extend") => (store' = store /\ state' = state)
        /\ (pc[t] = "extend" /\ pc'[t] = "extend") => (store' = store /\ state' = state)
        /\ (Replays(t) /\ pc'[t] # "extend")
               => /\ Finished(t, "Invalid(DuplicateTransaction)")'
                  /\ loc'[t].txn = None
                  /\ loc'[t].events = <<>>
                  /\ store' = store
                  /\ state' = state

\* C5: a block that reaches extend (it extends the head and passed the checks
\* of push) and carries a transaction that is in the transaction cache, or in
\* one of the W most recent blocks of the main chain, is answered with
\* Invalid(DuplicateTransaction): the write transaction is dropped, and store
\* (head pointer, chain infos, accounts) and state (head, cache) are as they
\* were when push was called.
C5_ReplayRejection == []C5_Extending /\ [][C5_Step]_vars

\* A replaying block was rejected.
C5_Witness ==
    \E t \in Threads :
        /\ Finished(t, "Invalid(DuplicateTransaction)")
        /\ Tx1 \in CacheTxs(state.transaction_cache)

\* An intrinsically valid block that is not stored and whose predecessor is
\* not stored either.
IsOrphan(b) ==
    /\ Verify(b)
    /\ Hash(b.header) \notin DOMAIN store.chain_db
    /\ \A h \in DOMAIN store.chain_db : b.header.prev_hash # h

C6_Step ==
    \A t \in Threads :
        (pc[t] = "idle" /\ pc'[t] # "idle") =>
            \A b \in Offers :
                (IsOrphan(b) /\ Push(t, b))
                    => /\ Finished(t, "Orphan")'
                       /\ loc'[t].events = <<>>
                       /\ store' = store
                       /\ state' = state

\* C6: pushing a block that verifies, is not stored and names a predecessor
\* that is not stored returns Orphan in the same step, with no event, the
\* store untouched and the head where it was.
C6_OrphanRejection == [][C6_Step]_vars

\* An orphan was pushed on a chain that has grown beyond genesis.
C6_Witness ==
    \E t \in Threads : Finished(t, "Orphan") /\ NumStored(store) > 0

\* The pairs (hash, block) of list are a chain segment in ascending height.
Ascending(list) ==
    /\ \A i \in 1..Len(list) : list[i][1] = Hash(list[i][2].header)
    /\ \A i \in 2..Len(list) :
           /\ list[i][2].header.prev_hash = list[i - 1][1]
           /\ list[i][2].header.height = list[i - 1][2].header.height + 1

\* event lists the blocks above a common ancestor: the old branch in
\* reverted, the branch ending in the block `pushed` in adopted.
WellFormedRebranch(event, pushed) ==
    /\ event.type = "Rebranched"
    /\ Len(event.reverted) > 0 /\ Len(event.adopted) > 0
    /\ Ascending(event.reverted) /\ Ascending(event.adopted)
    /\ event.reverted[1][2].header.prev_hash = event.adopted[1][2].header.prev_hash
    /\ event.reverted[1][1] # event.adopted[1][1]
    /\ event.adopted[Len(event.adopted)][1] = pushed
    /\ LET ancestor == event.adopted[1][2].header.prev_hash IN
           /\ ancestor \in DOMAIN store.chain_db
           /\ store.chain_db[ancestor].on_main_chain
    /\ \A i \in 1..Len(event.reverted) : ~store.chain_db[event.reverted[i][1]].on_main_chain
    /\ \A i \in 1..Len(event.adopted) : store.chain_db[event.adopted[i][1]].on_main_chain

C7_Events ==
    \A t \in Threads :
        /\ (pc[t] = "callback" /\ loc[t].event.type = "Rebranched") =>
               /\ loc[t].events = <<loc[t].event>>
               /\ WellFormedRebranch(loc[t].event, loc[t].hash)
        /\ Finished(t, "Rebranched") =>
               /\ Len(loc[t].events) = 1
               /\ WellFormedRebranch(loc[t].events[1], loc[t].hash)
        /\ (pc[t] = "done" /\ loc[t].result \notin {"Extended", "Rebranched"}) =>
               loc[t].events = <<>>

C7_Step ==
    \A t \in Threads :
        /\ (pc[t] = "reb_commit" /\ pc'[t] = "notify") =>
               /\ loc'[t].event.reverted[Len(loc'[t].event.reverted)][1] = state.head_hash
               /\ state'.head_hash = loc[t].hash
        /\ (pc[t] = "callback" /\ pc'[t] = "done" /\ loc[t].event.type = "Rebranched") =>
               Finished(t, "Rebranched")'
        /\ (pc[t] = "idle" /\ pc'[t] = "done") => loc'[t].events = <<>>
        /\ (pc[t] \in {"extend", "rebranch"} /\ pc'[t] = "done") => loc'[t].events = <<>>

\* C7: a push that returns Rebranched delivered exactly one event, a
\* Rebranched one: reverted is the chain segment from just above the common
\* ancestor up to the head the engine had before, adopted the segment from
\* just above that ancestor up to the pushed block, both in ascending height;
\* a push that ends with any result other than Extended or Rebranched
\* delivered no event.
C7_RebranchNotification == []C7_Events /\ [][C7_Step]_vars

\* A rebranch that reverted two blocks and adopted two has returned.
C7_Witness ==
    \E t \in Threads :
        /\ Finished(t, "Rebranched")
        /\ Len(loc[t].events[1].reverted) >= 2
        /\ Len(loc[t].events[1].adopted) >= 2

\* The hash of the new head an event announces.
Announced(event) ==
    IF event.type = "Extended" THEN event.hash
    ELSE event.adopted[Len(event.adopted)][1]

\* C8: from the moment a push is about to invoke the listeners until they
\* return, the write lock is free and head_hash() is the hash the event
\* announces (the pushed block, last of adopted for a rebranch); that is what
\* the listener read too, and the committed store holds the block on the main
\* chain with the accounts root at its accounts_hash.
C8_EventAfterPublication ==
    \A t \in Threads :
        pc[t] \in {"notify", "callback"} =>
            LET h == Announced(loc[t].event) IN
            /\ h = loc[t].hash
            /\ rw.writer = NoThread
            /\ state.head_hash = h
            /\ pc[t] = "callback" => loc[t].seen.head_hash = h
            /\ h \in DOMAIN store.chain_db
            /\ h \in DOMAIN store.block_db
            /\ store.chain_db[h].on_main_chain
            /\ AccountsRoot = store.chain_db[h].head.header.accounts_hash


\* A listener is running for a Rebranched event.
C8_Witness ==
    \E t \in Threads :
        /\ pc[t] = "callback"
        /\ loc[t].event.type = "Rebranched"
        /\ loc[t].seen.head_hash = loc[t].hash

\* C9: a listener can call back into the engine: while it runs the state can
\* be read, and a push it makes is not left waiting for a push_lock that its
\* own thread holds.
C9_ListenerReentrancy ==
    \A t \in Threads :
        /\ pc[t] = "callback" => CanReadState(t)
        /\ pc[t] = "nested_lock" => push_lock # t

\* Thread t is between taking push_lock and returning from push.
Holding(t) ==
    \/ pc[t] \in {"extend", "ext_write", "ext_commit", "rebranch", "reb_write",
                  "reb_commit", "notify", "callback", "nested_lock"}
    \/ pc[t] = "done" /\ loc[t].result # "Invalid(InvalidBlock)"

C10_Exclusive ==
    \A t \in Threads :
        /\ Holding(t) => push_lock = t
        /\ Finished(t, "Extended") =>
               /\ loc[t].hash \in DOMAIN store.chain_db
               /\ Len(loc[t].events) = 1
               /\ loc[t].events[1].type = "Extended"
               /\ loc[t].events[1].hash = loc[t].hash

C10_Step ==
    \A t \in Threads : Survives =>
        /\ (pc[t] = "ext_commit" /\ pc'[t] # "ext_commit") =>
               /\ loc[t].hash \notin DOMAIN store.chain_db
               /\ loc[t].hash \in DOMAIN store'.chain_db
        /\ (pc[t] = "lock" /\ pc'[t] # "lock" /\ loc[t].hash \in DOMAIN store.chain_db) =>
               /\ Finished(t, "Known")'
               /\ loc'[t].events = <<>>
               /\ store' = store
               /\ state' = state
        /\ (pc[t] = "lock" /\ pc'[t] = "lock") =>
               \A u \in Threads \ {t} :
                   (loc[u].hash = loc[t].hash /\ Finished(u, "Extended")')
                       => loc[t].hash \in DOMAIN store'.chain_db

\* C10: a thread between the Known check and its return holds push_lock, so
\* no two pushes are there together; a block is committed by extend only if it
\* was not stored, an Extended push has delivered exactly one Extended event
\* for its block, and a push of the same block that waited for the lock
\* meanwhile returns Known with no event and no change.
C10_PushSerialization == []C10_Exclusive /\ [][C10_Step]_vars

\* One thread's push of a block has returned Extended while the other
\* thread's push of the same block waits for push_lock.
C10_Witness ==
    \E t \in Threads : \E u \in Threads \ {t} :
        /\ Finished(t, "Extended")
        /\ pc[u] = "lock"
        /\ loc[u].hash = loc[t].hash

\* ------------------------------------------------------------------- C11
InvalidResults ==
    {"Invalid(InvalidBlock)", "Invalid(InvalidSuccessor)", "Invalid(DifficultyMismatch)",
     "Invalid(DuplicateTransaction)", "Invalid(AccountsError(InsufficientFunds))",
     "Invalid(AccountsError(AccountsHashMismatch))", "Invalid(InvalidFork)"}

\* Thread t's push returns Invalid(e) in this step.
Rejects(t) == pc[t] # "done" /\ pc'[t] = "done" /\ loc'[t].result \in InvalidResults

\* The store and the published state (head_hash, main_chain, transaction cache;
\* accounts and every stored chain info) are what they were.
NoEffect == store' = store /\ state' = state

C11_Step ==
    \A t \in Threads : Survives =>
        \* from taking push_lock to the end of the checks of extend / rebranch
        \* nothing is written, whoever takes the step
        /\ (pc[t] \in {"extend", "rebranch"} \/ pc'[t] \in {"extend", "rebranch"}) => NoEffect
        \* the step that returns Invalid(e) writes nothing, and the block is
        \* not stored afterwards
        /\ Rejects(t) =>
              /\ NoEffect
              /\ pc[t] \in {"extend", "rebranch"} => ~Contains(store', loc[t].hash, TRUE)
              /\ pc[t] = "lock" => ~Contains(store', Hash(loc[t].block.header), TRUE)
              \* (a block that fails verification may carry the header of a
              \* stored block with another body)
              /\ pc[t] = "idle" =>
                    \A b \in Offers : Push(t, b) => b \notin StoredBlocks(store')

C12_AtomicCommit ==
    /\ phase # "recovery_failed"
    /\ phase = "recovered" =>
           /\ state.head_hash = old.head_hash
           /\ state.main_chain.head.header.height = old.height

\* ------------------------------------------------------------------- C13
\* The node at the other end from n.
Other(n) == CHOOSE m \in Nodes : m # n

\* Node n holds an outbound info for the other node in Negotiating state.
OutboundNegotiating(n) ==
    LET info == GetConnectionByPeerAddress(pool[n], AddressOf(NodeId(Other(n)))) IN
    /\ info # None
    /\ info.state = "Negotiating"
    /\ ~info.network_connection.inbound

\* The info node n has for the other node is Established over socket s.
EstablishedOver(n, s) ==
    LET info == GetConnectionByPeerAddress(pool[n], AddressOf(NodeId(Other(n)))) IN
    /\ info # None
    /\ info.state = "Established"
    /\ info.network_connection.socket = s

\* Both nodes have processed the handshake of the inbound connection while
\* they held the outbound one, and every requested close has been delivered.
RaceSettled ==
    \A n \in Nodes :
        /\ net[n][<<"in", NodeId(Other(n))>>].stage \in {"handshaken", "closed"}
        /\ net[n][<<"out", NodeId(Other(n))>>].stage \in {"versioned", "handshaken", "closed"}
        /\ \A s \in Sockets : net[n][s].closing # "" => net[n][s].stage = "closed"

C13_Step ==
    \A n \in Nodes :
        (OutboundNegotiating(n) /\ Handshake(n, <<"in", NodeId(Other(n))>>))
            => fault'[n] = ""

C13_Settled ==
    RaceSettled =>
        /\ EstablishedOver("A", <<"in", 2>>)
        /\ EstablishedOver("B", <<"out", 1>>)
        /\ net["A"][<<"out", 2>>].stage = "closed"
        /\ net["B"][<<"in", 1>>].stage = "closed"
        /\ "SimultaneousConnection" \in
               {net["A"][<<"out", 2>>].closing, net["B"][<<"in", 1>>].closing}

\* C13: when a node that holds an outbound info in Negotiating state for the
\* other node processes the handshake of the inbound connection from that
\* node, no assertion of the pool fails; and once both nodes have processed
\* their handshakes and closes, the connection that is inbound at the node
\* with the smaller peer id (A) is Established on both nodes and the other
\* connection is closed, with SimultaneousConnection at the end that closed it.
C13_SimultaneousConnection == [][C13_Step]_vars /\ []C13_Settled

\* ---------------------------------------------------------------- C14
\* The connections admitted at node n under one reliable net address, and
\* under one subnet.
AdmittedByNetAddress(n) ==
    {pool[n].connections_by_net_address[a] : a \in DOMAIN pool[n].connections_by_net_address}

AdmittedBySubnet(n) ==
    {pool[n].connections_by_subnet[a] : a \in DOMAIN pool[n].connections_by_subnet}

\* C14: per-IP quota: the number of admitted connections that share one
\* reliable net address never exceeds PEER_COUNT_PER_IP_MAX, and the number
\* that share one subnet never exceeds INBOUND_PEER_COUNT_PER_SUBNET_MAX.
C14_PerIpQuota ==
    \A n \in Nodes :
        /\ \A ids \in AdmittedByNetAddress(n) : Cardinality(ids) <= PEER_COUNT_PER_IP_MAX
        /\ \A ids \in AdmittedBySubnet(n) :
               Cardinality(ids) <= INBOUND_PEER_COUNT_PER_SUBNET_MAX

\* ---------------------------------------------------------------- C15
\* Node n has never allowed inbound exchange and never dialled a peer.
InboundOnly(n) == ~hist[n].exchange /\ ~hist[n].outbound

\* C15: global peer cap: as long as allow_inbound_exchange has been false
\* throughout and all connections are inbound, peer_count() never exceeds
\* PEER_COUNT_MAX, whatever the order of the handlers.
C15_GlobalPeerCap ==
    \A n \in Nodes : InboundOnly(n) => PeerCount(pool[n]) <= PEER_COUNT_MAX

\* The cap is reached and on_handshake has turned away a further inbound
\* connection that on_connection had admitted.
C15_Witness ==
    /\ InboundOnly("A")
    /\ PeerCount(pool["A"]) = PEER_COUNT_MAX
    /\ \E s \in Sockets :
          /\ s[1] = "in"
          /\ net["A"][s].stage = "handshaken"
          /\ net["A"][s].closing = "MaxPeerCountReached"

\* ---------------------------------------------------------------- C16
\* The events of one connection that the ordering is about.
Lifecycle == {"Connection", "PeerJoined", "PeerLeft", "Close"}

Rank(type) ==
    CASE type = "Connection" -> 1 [] type = "PeerJoined" -> 2
      [] type = "PeerLeft" -> 3 [] OTHER -> 4

IsLifecycle(type) == type \in Lifecycle

\* What the listener of node n has heard about the connection of socket s.
LifeOf(n, s) == SelectSeq(evlog[n][s], IsLifecycle)

Has(log, type) == \E i \in DOMAIN log : log[i] = type

\* The pool of node n has removed the connection of socket s in on_close.
Removed(n, s) == net[n][s].stage = "closed" /\ net[n][s].id # -1

C17_NotifyOutsideWriteLock == \A n \in Nodes : hist[n].locked = {}

\* ---------------------------------------------------------------- C18
\* The ConnectionInfos a pool state holds.
Infos(st) ==
    {st.connections.inner[i] : i \in {j \in DOMAIN st.connections.inner :
                                         st.connections.inner[j] # None}}

NumInfos(st) ==
    Cardinality({j \in DOMAIN st.connections.inner : st.connections.inner[j] # None})

\* The conditions under which connect_outbound(addr) is to be refused.
Unsupported(addr) == addr.protocol \notin {"Ws", "Wss"}

Known(st, addr) == \E info \in Infos(st) : info.peer_address = addr

PerIpFull(st, addr) ==
    /\ addr.net_address.reliable
    /\ addr.net_address \in DOMAIN st.connections_by_net_address
    /\ Cardinality(st.connections_by_net_address[addr.net_address]) >= PEER_COUNT_PER_IP_MAX

OutboundSubnetFull(st, addr) ==
    /\ addr.net_address.reliable
    /\ Cardinality({info \in Infos(st) :
            /\ info.peer_channel
            /\ ~info.network_connection.inbound
            /\ info.network_connection.net_address.reliable
            /\ info.network_connection.net_address.subnet = addr.net_address.subnet})
          >= OUTBOUND_PEER_COUNT_PER_SUBNET_MAX

Refused(st, addr) ==
    \/ Unsupported(addr)
    \/ addr \in BannedAddresses
    \/ Known(st, addr)
    \/ PerIpFull(st, addr)
    \/ OutboundSubnetFull(st, addr)

\* st2 is st with exactly one more info, Connecting and indexed under addr,
\* and one more pending connection attempt.
AddsConnecting(st, st2, addr) ==
    /\ NumInfos(st2) = NumInfos(st) + 1
    /\ \A info \in Infos(st) : info \in Infos(st2)
    /\ addr \notin DOMAIN st.connections_by_peer_address
    /\ DOMAIN st2.connections_by_peer_address =
           DOMAIN st.connections_by_peer_address \cup {addr}
    /\ GetConnection(st, st2.connections_by_peer_address[addr]) = None
    /\ GetConnection(st2, st2.connections_by_peer_address[addr]).state = "Connecting"
    /\ GetConnection(st2, st2.connections_by_peer_address[addr]).peer_address = addr
    /\ \A a \in DOMAIN st.connections_by_peer_address :
          st2.connections_by_peer_address[a] = st.connections_by_peer_address[a]
    /\ st2.connecting_count = st.connecting_count + 1
    /\ [st2 EXCEPT !.connections = st.connections,
                   !.connections_by_peer_address = st.connections_by_peer_address,
                   !.connecting_count = st.connecting_count] = st

\* C18: connect_outbound(addr) returns false and leaves the pool state as
\* it is when addr's protocol is neither Ws nor Wss, addr is banned in the
\* address book, an info for addr exists in any state, the per-IP count of
\* addr's reliable net address has reached PEER_COUNT_PER_IP_MAX or the
\* outbound count of its subnet has reached OUTBOUND_PEER_COUNT_PER_SUBNET_MAX;
\* otherwise it returns true, adds exactly one info in state Connecting
\* indexed under addr and raises connecting_count by exactly 1.
C18_ConnectOutbound ==
    \A n \in Nodes : \A p \in PeerIds \ {NodeId(n)} :
        LET addr == AddressOf(p)
            r == ConnectOutbound(pool[n], addr)
        IN IF Refused(pool[n], addr)
           THEN ~r.ok /\ r.state = pool[n]
           ELSE r.ok /\ AddsConnecting(pool[n], r.state, addr)

\* An accepted request is pending for peer 3, an inbound connection from
\* the IP of peer 4 is admitted: requests for 3 (known), 4 (per-IP count),
\* 6 (protocol) and 7 (banned) are refused, one for 5 is accepted.
C18_Witness ==
    /\ hist["A"].outbound
    /\ pool["A"].connecting_count = 1
    /\ Known(pool["A"], AddressOf(3))
    /\ ~Known(pool["A"], AddressOf(4)) /\ PerIpFull(pool["A"], AddressOf(4))
    /\ \A p \in {3, 4, 6, 7} : ~ConnectOutbound(pool["A"], AddressOf(p)).ok
    /\ ConnectOutbound(pool["A"], AddressOf(5)).ok

\* ---------------------------------------------------------------- C19
\* The sockets of the infos of st that have one: established peers,
\* connections in Connected or Negotiating state, and inbound connections
\* before their handshake.
SocketsOf(st) ==
    {info.network_connection.socket :
        info \in {i \in Infos(st) : i.network_connection # None}}

C19_Step ==
    \A n \in Nodes :
        DoDisconnect(n) =>
            \A s \in SocketsOf(pool[n]) :
                /\ net'[n][s].closing # ""
                /\ net[n][s].closing = "" => net'[n][s].closing = "ManualNetworkDisconnect"

\* C19: disconnect() closes every active connection: after the call every
\* info that has a socket, inbound connections before their handshake
\* included, has been asked to close with ManualNetworkDisconnect.
C19_DisconnectClosesAll == [][C19_Step]_vars

\* ---------------------------------------------------------------- C20
\* The connection ids registered in the net-address or the subnet index.
Registered(st) ==
    UNION ({st.connections_by_net_address[a] : a \in DOMAIN st.connections_by_net_address}
           \cup {st.connections_by_subnet[a] : a \in DOMAIN st.connections_by_subnet})

\* Socket s of node n was turned away at the gate.
Blocked(n, s) == net[n][s].closing = "InboundConnectionsBlocked"

\* An inbound socket that arrives while the gate is shut is asked to close
\* with InboundConnectionsBlocked, the indices stay as they are, the listener
\* hears nothing and no network agent is created for it.
C20_Step ==
    \A n \in Nodes : \A p \in PeerIds :
        (~pool[n].allow_inbound_connections /\ InboundArrives(n, p)) =>
            /\ net'[n][<<"in", p>>].closing = "InboundConnectionsBlocked"
            /\ net'[n][<<"in", p>>].stage = "open"
            /\ pool'[n].connections_by_net_address = pool[n].connections_by_net_address
            /\ pool'[n].connections_by_subnet = pool[n].connections_by_subnet
            /\ evlog'[n] = evlog[n]

\* A socket turned away at the gate never gets a Connection event, a Version
\* or a Handshake, and is in no index for as long as the pool holds it.
C20_Blocked ==
    \A n \in Nodes : \A s \in Sockets :
        Blocked(n, s) =>
            /\ net[n][s].stage \in {"open", "closed"}
            /\ ~Has(evlog[n][s], "Connection")
            /\ ~Has(evlog[n][s], "PeerJoined")
            /\ net[n][s].stage = "open" => net[n][s].id \notin Registered(pool[n])

\* C20: inbound gate: while allow_inbound_connections is false (as it is
\* initially), every inbound socket handed to the pool is closed with
\* InboundConnectionsBlocked, is never registered in the net-address or the
\* subnet index, and never produces a Connection event or a handshake.
C20_InboundGate == []C20_Blocked /\ [][C20_Step]_vars

\* The gate was open for one inbound connection and shut for the next one,
\* whose close has been delivered.
C20_Witness ==
    \E s, u \in Sockets :
        /\ ~pool["A"].allow_inbound_connections
        /\ s[1] = "in" /\ Has(evlog["A"][s], "Connection")
        /\ u[1] = "in" /\ Blocked("A", u) /\ net["A"][u].stage = "closed"
        /\ evlog["A"][u] = <<"Close">>

\* ---------------------------------------------------------------- C21
RECURSIVE BySeq(_)
\* Registrations in the order they were made.
BySeq(regs) ==
    IF regs = {} THEN <<>>
    ELSE LET x == CHOOSE y \in regs : \A z \in regs : y.seq <= z.seq
         IN <<x>> \o BySeq(regs \ {x})

\* The notifier holds exactly the registrations made and not taken back, in
\* the order they were made, and no two of them share a handle.
C21_Listeners ==
    LET live == BySeq(nlog.regs) IN
    /\ Len(notifier.listeners) = Len(live)
    /\ \A i \in DOMAIN live :
          notifier.listeners[i] = <<live[i].handle, live[i].listener>>
    /\ \A x, y \in nlog.regs : x.handle = y.handle => x = y

C21_Step ==
    /\ \A listener \in Listeners :
          DoRegister(listener) => nlog'.handle \notin nlog.issued
    /\ \A handle \in 0..MaxRegistered :
          DoDeregister(handle) =>
             /\ Len(notifier'.listeners) >= Len(notifier.listeners) - 1
             /\ notifier'.listeners =
                   [i \in 1..Len(notifier'.listeners) |->
                       IF \A j \in 1..i : notifier.listeners[j][1] # handle
                       THEN notifier.listeners[i] ELSE notifier.listeners[i + 1]]
             /\ \A i \in DOMAIN notifier'.listeners : notifier'.listeners[i][1] # handle
             /\ (\A i \in DOMAIN notifier.listeners : notifier.listeners[i][1] # handle)
                   => notifier' = notifier
    /\ \A event \in Events :
          DoNotify(event) =>
             LET live == BySeq(nlog.regs) IN
             nlog'.calls = [i \in DOMAIN live |->
                               [listener |-> live[i].listener, event |-> event]]

\* C21: after any sequence of register and deregister calls, notify(event)
\* invokes exactly the listeners registered and not since deregistered, each
\* once, in the order of their registration; register returns a handle the
\* notifier never returned before; deregister(handle) removes only the
\* listener with that handle and does nothing for an unknown handle.
C21_Notifier == []C21_Listeners /\ [][C21_Step]_vars

\* Three listeners were registered, the first was deregistered, and notify
\* has invoked the other two.
C21_Witness ==
    /\ nlog.issued = {0, 1, 2}
    /\ {x.handle : x \in nlog.regs} = {1, 2}
    /\ Len(nlog.calls) = 2

\* ---------------------------------------------------------------- C22
\* The empty slots of the vector.
EmptySlots(v) == {i \in 0..(Len(v.inner) - 1) : v.inner[i + 1] = None}

\* get returns the value of every occupied index and None for the others;
\* the free list names each empty slot once and nothing else.
C22_Slots ==
    /\ \A i \in 0..MaxInserts :
          SparseVecGet(sparse, i) = IF i \in DOMAIN slog.held THEN slog.held[i] ELSE None
    /\ \A i, j \in DOMAIN sparse.free_indices :
          sparse.free_indices[i] = sparse.free_indices[j] => i = j
    /\ {sparse.free_indices[i] : i \in DOMAIN sparse.free_indices} = EmptySlots(sparse)

C22_Step ==
    /\ \A value \in Values :
          SvInsert(value) =>
             /\ slog'.index \notin DOMAIN slog.held
             /\ IF EmptySlots(sparse) # {}
                THEN slog'.index \in EmptySlots(sparse) /\ Len(sparse'.inner) = Len(sparse.inner)
                ELSE slog'.index = Len(sparse.inner)
             /\ \A i \in DOMAIN slog.held : SparseVecGet(sparse', i) = slog.held[i]
    /\ \A index \in 0..MaxInserts :
          SvRemove(index) =>
             /\ index \notin DOMAIN slog.held => slog'.value = None /\ sparse' = sparse
             /\ index \in DOMAIN slog.held => slog'.value = slog.held[index]
             /\ \A i \in DOMAIN slog.held \ {index} : SparseVecGet(sparse', i) = slog.held[i]

\* C22: for any sequence of insert and remove, insert returns an index that
\* is not occupied, reusing a freed slot before the vector grows; an
\* occupied index keeps returning its value from get until it is removed;
\* remove of an empty or out-of-range index returns None and adds nothing to
\* the free list, which holds each empty slot at most once.
C22_SparseVec == []C22_Slots /\ [][C22_Step]_vars

\* Four inserts into a vector that grew to three slots only: the last
\* insert reused a freed slot while another slot is still free.
C22_Witness ==
    /\ slog.call = "insert"
    /\ slog.index < Len(sparse.inner) - 1
    /\ slog.inserts = 4
    /\ Len(sparse.inner) = 3
    /\ Len(sparse.free_indices) = 1

\* ---------------------------------------------------------------- C23
\* The median of a list of integers: the middle value of the sorted list,
\* the mean of the two middle values when their number is even.
Median(values) ==
    LET sorted == SortInts(values)
        len == Len(sorted)
    IN IF len % 2 = 1 THEN sorted[(len + 1) \div 2]
       ELSE DivTrunc(sorted[len \div 2] + sorted[(len \div 2) + 1], 2)

\* C23: network time offset: after every PeerJoined and PeerLeft the offset
\* is the median of 0 (self) and the time_offset of every Established peer,
\* for an even number of values the mean of the two middle values.
C23_TimeOffsetMedian == ntime.offset = Median(<<0>> \o ntime.peers)

\* ---------------------------------------------------------------- C24
\* The checks of push a block fails, each stated on the block and the store.
FailsVerification(block) ==
    block.header.nonce # 0 \/ block.header.body_hash # BodyHash(block.body)

Stored(hash) == hash \in DOMAIN store.chain_db

NotSuccessor(block) ==
    LET prev == store.chain_db[block.header.prev_hash].head.header IN
    \/ block.header.height # prev.height + 1
    \/ block.header.timestamp < prev.timestamp

WrongDifficulty(block) ==
    LET nt == GetNextTarget(store, state, block.header.prev_hash) IN
    nt.ok /\ block.header.n_bits # TargetCompact(nt.target)

\* The outcome the first failing check gives, "classified" when none fails.
FirstCheck(block) ==
    IF FailsVerification(block) THEN "Invalid(InvalidBlock)"
    ELSE IF Stored(Hash(block.header)) THEN "Known"
    ELSE IF ~Stored(block.header.prev_hash) THEN "Orphan"
    ELSE IF NotSuccessor(block) THEN "Invalid(InvalidSuccessor)"
    ELSE IF WrongDifficulty(block) THEN "Invalid(DifficultyMismatch)"
    ELSE "classified"

\* The number of checks the block fails, as far as they can be evaluated.
NumFailed(block) ==
    (IF FailsVerification(block) THEN 1 ELSE 0)
    + (IF Stored(Hash(block.header)) THEN 1 ELSE 0)
    + (IF ~Stored(block.header.prev_hash) THEN 1
       ELSE (IF NotSuccessor(block) THEN 1 ELSE 0)
            + (IF WrongDifficulty(block) THEN 1 ELSE 0))

\* What the step has made of thread t's push: its result, or "classified"
\* when the block went on to extend, rebranch or was stored as a fork.
Decided(t) ==
    IF pc'[t] \in {"extend", "rebranch"} THEN "classified"
    ELSE IF pc'[t] = "done" /\ loc'[t].result = "Forked" THEN "classified"
    ELSE IF pc'[t] = "done" THEN loc'[t].result
    ELSE "undecided"

C24_Step ==
    \A t \in Threads :
        /\ \A block \in Offers : Push(t, block) => Decided(t) = FirstCheck(block)
        /\ LockAcquired(t) => Decided(t) = FirstCheck(loc[t].block)

\* C24: push returns the outcome of the first check that applies, in the
\* order: verification fails -> Invalid(InvalidBlock); header hash stored ->
\* Known; predecessor not stored -> Orphan; not an immediate successor ->
\* Invalid(InvalidSuccessor); n_bits differs from the compact next target ->
\* Invalid(DifficultyMismatch); only then is the block classified.
C24_PushCheckOrder == [][C24_Step]_vars

\* The genesis block was pushed again: its header is stored and its
\* predecessor is not, and push returned Known; meanwhile a block is on
\* offer that fails the successor check and the difficulty check.
C24_Witness ==
    \E t \in Threads :
        /\ Finished(t, "Known")
        /\ loc[t].hash = GenesisHash
        /\ ~Stored(GenesisBlock.header.prev_hash)
        /\ \E block \in Offers :
              /\ FirstCheck(block) = "Invalid(InvalidSuccessor)"
              /\ NumFailed(block) = 2

\* ---------------------------------------------------------------- C25
\* The inbound socket at node n that comes from the other node.
InboundFrom(n) == <<"in", NodeId(Other(n))>>

\* Node n is on the losing side: the handshake of its inbound connection
\* from the other node completes while its own outbound connection to that
\* node is Negotiating, and its peer id is not the smaller one.
LosesRace(n) ==
    /\ OutboundNegotiating(n)
    /\ ~(NodeId(n) < NodeId(Other(n)))
    /\ Handshake(n, InboundFrom(n))

C25_Step ==
    \A n \in Nodes :
        LosesRace(n) =>
            LET id == net[n][InboundFrom(n)].id IN
            /\ net'[n][InboundFrom(n)].closing = "SimultaneousConnection"
            /\ GetConnection(pool'[n], id).state # "Established"
            /\ pool'[n].connections_by_peer_address = pool[n].connections_by_peer_address
            /\ pool'[n].connections_by_peer_address[AddressOf(NodeId(Other(n)))] # id
            /\ PeerCount(pool'[n]) = PeerCount(pool[n])
            /\ pool'[n].peer_count_outbound = pool[n].peer_count_outbound
            /\ evlog'[n] = evlog[n]

NumInState(st, state_name) ==
    Cardinality({j \in DOMAIN st.connections.inner :
                    /\ st.connections.inner[j] # None
                    /\ st.connections.inner[j].state = state_name})

\* An outbound attempt of node n to peer p is pending.
OutboundConnecting(n, p) ==
    LET info == GetConnectionByPeerAddress(pool[n], AddressOf(p)) IN
    IF info = None THEN FALSE ELSE info.state = "Connecting"

\* The handshake of the inbound connection from p completes at node n, and
\* the peer cap does not turn it away.
InboundHandshake(n, p) ==
    /\ Handshake(n, <<"in", p>>)
    /\ ~(PeerCount(pool[n]) >= PEER_COUNT_MAX /\ ~pool[n].allow_inbound_exchange)

C26_Step ==
    \A n \in Nodes : \A p \in PeerIds :
        (OutboundConnecting(n, p) /\ InboundHandshake(n, p)) =>
            LET id == net[n][<<"in", p>>].id IN
            /\ fault'[n] = ""
            /\ GetConnection(pool'[n], id).state = "Established"
            /\ pool'[n].connections_by_peer_address[AddressOf(p)] = id
            /\ Has(evlog'[n][<<"in", p>>], "PeerJoined")
            /\ pool'[n].connecting_count = NumInState(pool'[n], "Connecting")
            /\ NumInState(pool'[n], "Connecting") = NumInState(pool[n], "Connecting") - 1

\* C26: inbound beats pending outbound: when the handshake of an inbound
\* connection completes while an outbound info for the same peer address is
\* still Connecting, the pending attempt is aborted and removed, the inbound
\* connection becomes Established (PeerJoined emitted, the peer-address
\* index points to it), connecting_count is again the number of Connecting
\* infos, and the handler completes without a failed assertion.
C26_InboundBeatsConnecting == [][C26_Step]_vars

\* ---------------------------------------------------------------- C27
\* The connection ids that the three secondary indices of st hold.
IndexedIds(st) ==
    {st.connections_by_peer_address[k] : k \in DOMAIN st.connections_by_peer_address}
    \cup UNION {st.connections_by_net_address[k] : k \in DOMAIN st.connections_by_net_address}
    \cup UNION {st.connections_by_subnet[k] : k \in DOMAIN st.connections_by_subnet}

\* The net addresses of the connection of a live info: that of its socket
\* and, once established, that of its peer.
NetAddressesOf(info) ==
    (IF info.network_connection = None THEN {} ELSE {info.network_connection.net_address})
    \cup (IF info.peer = None THEN {} ELSE {info.peer.net_address})

\* Every id in an index of st is the id of a live info of the connection
\* the index key names.
IndicesLive(st) ==
    /\ \A k \in DOMAIN st.connections_by_peer_address :
          LET info == GetConnection(st, st.connections_by_peer_address[k]) IN
          IF info = None THEN FALSE ELSE info.peer_address = k
    /\ \A k \in DOMAIN st.connections_by_net_address :
          \A id \in st.connections_by_net_address[k] :
             LET info == GetConnection(st, id) IN
             IF info = None THEN FALSE ELSE k \in NetAddressesOf(info)
    /\ \A k \in DOMAIN st.connections_by_subnet :
          \A id \in st.connections_by_subnet[k] :
             LET info == GetConnection(st, id) IN
             IF info = None THEN FALSE
             ELSE k \in {GetSubnetAddress(a) : a \in NetAddressesOf(info)}

\* on_close of a live connection has run to its end.
CloseProcessed(n, s) ==
    /\ CloseDelivered(n, s)
    /\ GetConnection(pool[n], net[n][s].id) # None
    /\ fault'[n] = ""

C27_Step ==
    \A n \in Nodes : \A s \in Sockets :
        CloseProcessed(n, s) => net[n][s].id \notin IndexedIds(pool'[n])

\* C27: close cleans all indices: after the close of a connection has been
\* processed its id is in none of the three secondary indices, also when the
\* peer reported a net address that is not the socket's, so every id in an
\* index refers to a live info of that same connection.
C27_CloseCleansIndices ==
    /\ [](\A n \in Nodes : IndicesLive(pool[n]))
    /\ [][C27_Step]_vars

\* ---------------------------------------------------------------- C28
\* The live inbound infos of st whose handshake has not completed.
InboundPending(st) ==
    {j \in DOMAIN st.connections.inner :
        /\ st.connections.inner[j] # None
        /\ st.connections.inner[j].network_connection # None
        /\ st.connections.inner[j].network_connection.inbound
        /\ st.connections.inner[j].state # "Established"}

\* C28: inbound-pending counter consistency: in every state reached by socket
\* arrivals, handshakes and closes, inbound_count is the number of live
\* inbound infos that have not completed the handshake, so count() is the
\* number of live infos and is 0 once every connection has been closed.
C28_InboundCount ==
    \A n \in Nodes :
        fault[n] = "" =>
            /\ pool[n].inbound_count = Cardinality(InboundPending(pool[n]))
            /\ Count(pool[n]) = NumInfos(pool[n])
            /\ NumInfos(pool[n]) = 0 => Count(pool[n]) = 0

\* ---------------------------------------------------------------- C29
\* The live infos of st in Established state whose connection is outbound.
EstablishedOutbound(st) ==
    {j \in DOMAIN st.connections.inner :
        /\ st.connections.inner[j] # None
        /\ st.connections.inner[j].state = "Established"
        /\ ~st.connections.inner[j].network_connection.inbound}

\* The messages of the checked decrements of the peer counters and of
\* connecting_count.
Underflows == {"peer_count < 0", "connecting_count < 0"}

\* C29: peer counter consistency: between two handlers peer_count() is the
\* number of Established infos, the outbound counter is the number of
\* Established outbound infos, connecting_count is the number of Connecting
\* infos, and no decrement of a counter underflows.
C29_PeerCounters ==
    \A n \in Nodes :
        /\ PeerCount(pool[n]) = NumInState(pool[n], "Established")
        /\ pool[n].peer_count_outbound = Cardinality(EstablishedOutbound(pool[n]))
        /\ pool[n].connecting_count = NumInState(pool[n], "Connecting")
        /\ fault[n] \notin Underflows

\* At one node an outbound peer is established (its dial was counted as
\* Connecting and no longer is) after an established peer has left.
C29_Witness ==
    \E n \in Nodes :
        /\ fault[n] = ""
        /\ pool[n].peer_count_outbound = 1
        /\ PeerCount(pool[n]) = 1
        /\ pool[n].connecting_count = 0
        /\ \E s \in Sockets : Has(evlog[n][s], "PeerLeft")

\* ---------------------------------------------------------------- C30
\* The events on_handshake hands to the notifier when the handshake of
\* socket s completes at node n.
HandshakeEvents(n, s) ==
    OnHandshake(pool[n], NodeId(n), net[n][s].id,
                Peer(AddressOf(s[2]), AddressOf(s[2]).net_address)).events

\* The handshake of socket s completes at node n and establishes the peer.
Establishes(n, s) ==
    /\ Handshake(n, s)
    /\ fault'[n] = ""
    /\ GetConnection(pool'[n], net[n][s].id).state = "Established"

C30_Step ==
    \A n \in Nodes : \A s \in Sockets :
        (Establishes(n, s) /\ PeerCount(pool'[n]) >= PEER_COUNT_MAX) =>
            \E i \in DOMAIN HandshakeEvents(n, s) :
                HandshakeEvents(n, s)[i].type = "RecyclingRequest"

\* C30: recycling request: whenever a handshake completes and the peer
\* count, the newly established peer included, is at least PEER_COUNT_MAX, a
\* RecyclingRequest is emitted for that handshake; so the handshake that
\* takes the peer count from PEER_COUNT_MAX - 1 to PEER_COUNT_MAX emits it.
C30_RecyclingRequest == [][C30_Step]_vars

\* ---------------------------------------------------------------- C31
\* What a ban of the peer at net_address covers: the exact address of an
\* IPv4 peer, the /64 of an IPv6 peer.
BanRange(net_address) ==
    IF net_address.type = "IPv4" THEN net_address ELSE Subnet64(net_address)

\* The close of socket s that node n processes in this step is the close of
\* an Established peer with a banning close type.
BanningCloseOf(n, s) ==
    LET info == GetConnection(pool[n], net[n][s].id) IN
    /\ CloseDelivered(n, s)
    /\ net[n][s].closing \in BanningTypes
    /\ IF info = None THEN FALSE ELSE info.state = "Established"

\* A socket of peer p is handed to on_connection of node n in this step and
\* is not turned away for being inbound.
Arrives(n, p, dir) ==
    IF dir = "in" THEN InboundArrives(n, p) /\ pool[n].allow_inbound_connections
    ELSE OutboundEstablished(n, p)

C31_Step ==
    \A n \in Nodes :
        \* a ban is placed by the banning close of an Established peer, and
        \* by nothing else
        /\ \A s \in Sockets :
              BanningCloseOf(n, s) /\ AddressOf(s[2]).net_address.reliable =>
                 pool'[n].banned_ips =
                    pool[n].banned_ips \cup {BanRange(AddressOf(s[2]).net_address)}
        /\ pool'[n].banned_ips # pool[n].banned_ips => \E s \in Sockets : BanningCloseOf(n, s)
        \* a socket from a banned range is rejected with BannedIp
        /\ \A p \in PeerIds : \A dir \in {"in", "out"} :
              (/\ Arrives(n, p, dir)
               /\ AddressOf(p).net_address.reliable
               /\ BanRange(AddressOf(p).net_address) \in pool[n].banned_ips)
              => net'[n][<<dir, p>>].closing = "BannedIp"

\* C31: IP ban on close: after an Established peer is closed with a banning
\* close type every later socket from the banned range is rejected at
\* admission with BannedIp (IPv4: the exact address; IPv6: any address of
\* the same /64), while closes with another type or of connections that are
\* not established ban nothing.
C31_IpBan == [][C31_Step]_vars

\* ---------------------------------------------------------------- C32
RECURSIVE AncestorAt(_, _, _)
\* The block at the given height on the chain of the stored block hash, None
\* when the chain does not reach down to it.
AncestorAt(db, hash, height) ==
    LET info == GetChainInfo(db, hash, FALSE) IN
    IF info = None THEN None
    ELSE IF info.head.header.height = height THEN info
    ELSE IF info.head.header.height < height THEN None
    ELSE AncestorAt(db, info.head.header.prev_hash, height)

\* The stored blocks that are not on the main chain.
OffMain(db) == {h \in DOMAIN db.chain_db : ~db.chain_db[h].on_main_chain}

\* get_next_target(h) measures from the block DIFFICULTY_BLOCK_WINDOW below
\* h on h's own chain (from the first block when h is not that high), and
\* its assertion on head and tail holds.
TailOnOwnChain(db, st, h) ==
    LET head_info == GetChainInfo(db, h, FALSE)
        tail_info == TailInfo(db, head_info)
    IN /\ tail_info # None
       /\ tail_info = AncestorAt(db, h, TailHeight(head_info))
       /\ GetNextTarget(db, st, h).ok

\* C32: retarget tail selection on forks: for every stored block h off the
\* main chain, whatever the length of its fork, get_next_target(h) uses as
\* tail the block at height max(1, h.height - DIFFICULTY_BLOCK_WINDOW) on
\* h's own chain, so the head/tail assertion holds and a push of a child of
\* h never panics.
C32_ForkTail ==
    /\ Alive => \A h \in OffMain(store) : TailOnOwnChain(store, state, h)
    /\ \A t \in Threads : loc[t].result # "Panic"

\* ---------------------------------------------------------------- C33
\* The hashes of the main-chain blocks of the store.
MainChainHashes(db) == {h \in DOMAIN db.chain_db : db.chain_db[h].on_main_chain}

\* The locator list l of an engine whose head is at height: the head first,
\* then its nearest ancestors one by one, genesis last, no more than
\* LOCATORS_MAX_COUNT hashes, all of main-chain blocks in strictly
\* descending height.
WellFormedLocators(db, st, l) ==
    LET height == st.main_chain.head.header.height
        HeightOf(i) == db.chain_db[l[i]].head.header.height
    IN /\ l[1] = st.head_hash
       /\ l[Len(l)] = GenesisHash
       /\ Len(l) <= LOCATORS_MAX_COUNT
       /\ \A i \in DOMAIN l : l[i] \in MainChainHashes(db)
       /\ \A i \in DOMAIN l : i > 1 /\ l[i] \in DOMAIN db.chain_db /\ l[i - 1] \in DOMAIN db.chain_db
                                 => HeightOf(i) < HeightOf(i - 1)
       /\ \A i \in DOMAIN l : (i <= LOCATORS_TOP + 1 /\ i < Len(l) /\ l[i] \in DOMAIN db.chain_db)
                                 => HeightOf(i) = height - (i - 1)

\* C33: block locators: for every main-chain height >= 1 get_block_locators
\* returns a list that starts with the head hash, goes on with the nearest
\* ancestors one by one and then with ancestors at growing gaps, ends with
\* the genesis hash, has at most LOCATORS_MAX_COUNT entries and holds only
\* hashes of main-chain blocks, each once, in strictly descending height.
C33_BlockLocators ==
    (Alive /\ \A t \in Threads : pc[t] = "idle")
        => WellFormedLocators(store, state, GetBlockLocators(store, state))

\* ---------------------------------------------------------------- C34
RECURSIVE PathFrom(_, _)
\* The stored blocks on the prev_hash path from hash back to genesis.
PathFrom(db, hash) ==
    IF hash \notin DOMAIN db.chain_db THEN {}
    ELSE {hash} \cup PathFrom(db, db.chain_db[hash].head.header.prev_hash)

\* The children of the stored block hash on the path that ends in head.
ChildOnPath(db, head, hash) ==
    {c \in PathFrom(db, head) : db.chain_db[c].head.header.prev_hash = hash}

\* The marks of the stored block h are those of its place: on the path from
\* the head to genesis and pointing to its child there, or off it (or the
\* head itself) and pointing nowhere.
MarkedRight(db, head, h) ==
    LET info == db.chain_db[h] IN
    /\ info.on_main_chain <=> h \in PathFrom(db, head)
    /\ (h \in PathFrom(db, head) /\ h # head)
          => {info.main_chain_successor} = ChildOnPath(db, head, h)
    /\ (h \notin PathFrom(db, head) \/ h = head)
          => info.main_chain_successor = None

\* A push of the live engine has just returned Extended, Rebranched or
\* Forked.
Committed ==
    /\ Alive
    /\ \E t \in Threads : pc[t] = "done" /\ loc[t].result \in {"Extended", "Rebranched", "Forked"}

\* C34: main-chain marking: after every committed push (Extended,
\* Rebranched or Forked) the stored blocks with on_main_chain are exactly
\* those on the prev_hash path from the head to genesis, each of them but
\* the head has its child on that path as main_chain_successor, and the head
\* and every block off the main chain (forks, reverted blocks) have none.
C34_MainChainMarks ==
    Committed =>
        /\ GenesisHash \in PathFrom(store, state.head_hash)
        /\ \A h \in DOMAIN store.chain_db : MarkedRight(store, state.head_hash, h)

RECURSIVE MostRecent(_, _, _)
\* The hashes of the n most recent blocks ending at `hash`, oldest first
\* (fewer when the chain is shorter).
MostRecent(db, hash, n) ==
    IF n = 0 \/ hash \notin DOMAIN db.chain_db THEN <<>>
    ELSE Append(MostRecent(db, db.chain_db[hash].head.header.prev_hash, n - 1), hash)

\* The hashes of the blocks the cache covers, oldest first.
CacheHashes(cache) == [i \in 1..Len(cache) |-> Hash(cache[i].header)]

\* The cache of the engine is the window of its head.
WindowRight ==
    /\ CacheHashes(state.transaction_cache)
          = MostRecent(store, state.head_hash, TRANSACTION_VALIDITY_WINDOW)
    /\ CacheMissingBlocks(state.transaction_cache)
          = SaturatingSub(TRANSACTION_VALIDITY_WINDOW, state.main_chain.head.header.height)

\* The engine has just been constructed (init or load) and has pushed nothing.
Constructed == Alive /\ \A t \in Threads : pc[t] = "idle" /\ push_lock = NoThread

\* A push of the live engine has just returned Extended or Rebranched.
HeadMoved ==
    /\ Alive
    /\ \E t \in Threads : pc[t] = "done" /\ loc[t].result \in {"Extended", "Rebranched"}

Exhausted == Exhaustions(network') = Exhaustions(network) + 1

\* This step is a check_peer_count that found an address to connect to.
FoundAddress == network'.check # None /\ network'.check.exhaustions = 0 /\ pool' # pool

Doubled(backoff) ==
    IF 2 * backoff > CONNECT_BACKOFF_MAX THEN CONNECT_BACKOFF_MAX ELSE 2 * backoff

C36_Step ==
    /\ Exhausted =>
          /\ network'.check.scheduled = {network.backoff}
          /\ <<"PeerCountCheck", network.backoff>> \in network'.timers
          /\ network'.backoff = Doubled(network.backoff)
    /\ FoundAddress => network'.backoff = CONNECT_BACKOFF_INITIAL

\* C36: connect backoff: every check_peer_count that finds no suitable
\* address schedules a further check after the current backoff and doubles
\* the stored backoff, capped at CONNECT_BACKOFF_MAX (2s, 4s, 8s, ... for
\* consecutive exhaustions, a re-check after each of them); a check that
\* finds an address resets the backoff to CONNECT_BACKOFF_INITIAL.
C36_ConnectBackoff == [][C36_Step]_vars

\* The number of connections a recycle_connections call asks for (0 for no
\* call).
AskedFor(asked) ==
    IF asked = {} THEN 0
    ELSE LET c == CHOOSE x \in asked : TRUE IN IF c.wrapped THEN 1 ELSE c.count

\* C37: housekeeping recycling threshold: a housekeeping run asks the scorer
\* to recycle connections exactly when peer_count >= PEER_COUNT_RECYCLING_ACTIVE
\* (1% of the peers at that count, rising linearly to 20% at PEER_COUNT_MAX)
\* and asks for no connection when peer_count is below it.
C37_Recycling ==
    network.recycling # None =>
        LET r == network.recycling IN
        /\ r.peer_count >= PEER_COUNT_RECYCLING_ACTIVE =>
              /\ r.asked # {}
              /\ \A c \in r.asked : ~c.wrapped /\ c.count = RecycleCeil(r.peer_count)
        /\ r.peer_count < PEER_COUNT_RECYCLING_ACTIVE => AskedFor(r.asked) = 0

\* The ids of the live ConnectionInfo records of st.
LiveIds(st) ==
    {id \in 0..(Len(st.connections.inner) - 1) : GetConnection(st, id) # None}

\* No two live records of st carry the same peer address, and the index maps
\* the peer address of a live record to that record.
PeerAddressUnique(st) ==
    /\ \A i, j \in LiveIds(st) :
          (i # j /\ GetConnection(st, i).peer_address # None)
             => GetConnection(st, i).peer_address # GetConnection(st, j).peer_address
    /\ \A i \in LiveIds(st) :
          LET peer_address == GetConnection(st, i).peer_address IN
          peer_address # None =>
             /\ peer_address \in DOMAIN st.connections_by_peer_address
             /\ st.connections_by_peer_address[peer_address] = i

\* C38: peer-address uniqueness: in every reachable state no two live
\* ConnectionInfo records carry the same peer address, and the
\* by-peer-address index maps each peer address held by a live record to the
\* id of that record, whichever duplicate-resolution branch on_handshake took.
C38_PeerAddressUnique ==
    \A n \in Nodes : PeerAddressUnique(pool[n])

\* on_handshake of an inbound connection has found an Established connection
\* to the same peer address and asked to close the new one, which is still
\* live next to the stored one.
C38_Witness ==
    \E n \in Nodes : \E s \in Sockets :
        /\ fault[n] = ""
        /\ net[n][s].closing = "DuplicateConnection"
        /\ net[n][s].stage \in Live
        /\ GetConnection(pool[n], net[n][s].id) # None
        /\ \E i \in LiveIds(pool[n]) :
              /\ i # net[n][s].id
              /\ GetConnection(pool[n], i).state = "Established"
              /\ GetConnection(pool[n], i).peer_address = AddressOf(s[2])

\* on_handshake for socket s has notified RecyclingRequest and the listener of
\* the Network is running.
RecyclingNotified(s) ==
    /\ network.lock.handshake # None
    /\ network.lock.handshake.socket = s
    /\ network.lock.handshake.at = "listener"

\* The handshake of socket s has been announced and change_lock is free.
Joined(s) ==
    /\ LockFree
    /\ \E i \in DOMAIN evlog["A"][s] : evlog["A"][s][i] = "PeerJoined"

\* C39: recycling does not deadlock: when a handshake completes with
\* peer_count >= PEER_COUNT_MAX and the Network is the pool's listener, the
\* RecyclingRequest handler returns, on_handshake finishes and emits
\* PeerJoined, and change_lock is free again afterwards.
C39_RecyclingReturns ==
    \A s \in RecycleSockets : RecyclingNotified(s) ~> Joined(s)

\* head_hash() and height() can return: the engine is there and no writer
\* holds the lock of `state`.
Readable == Alive /\ rw.writer = NoThread

\* The head of st is stored in db and marked on the main chain, at no more
\* than the height of st.
HeadCommitted(db, st) ==
    LET info == GetChainInfo(db, st.head_hash, FALSE) IN
    IF info = None THEN FALSE
    ELSE /\ Contains(db, st.head_hash, FALSE)
         /\ st.main_chain.head.header.height >= info.head.header.height

\* The hash head_hash() returns before this step is on the main chain for a
\* contains / get_block after it, and height() is not below its height.
C40_Step ==
    (Readable /\ Alive') =>
        /\ Contains(store', state.head_hash, FALSE)
        /\ state'.main_chain.head.header.height >= state.main_chain.head.header.height

\* C40: readers never see an unpublished head: whenever head_hash() returns
\* h to a reader running next to a push, a following contains(h, false) /
\* get_block(h, false, _) finds h stored and on the main chain and a later
\* height() is at least the height of h; no head hash is seen whose store
\* transaction has not been committed.
C40_ReadersSeeCommittedHead ==
    [](Readable => HeadCommitted(store, state)) /\ [][C40_Step]_vars
====
